---- MODULE Spec2Model ----
(***************************************************************************)
(* bunker-search: the incremental indexer (src/indexer.rs) with its        *)
(* manifest file and the index writer, and the federated query service     *)
(* (src/server.rs, src/kiwix.rs, src/search.rs).                           *)
(***************************************************************************)
EXTENDS Integers, Sequences, FiniteSets, TLC

(***************************************************************************)
(* Bounds of the model.                                                    *)
(***************************************************************************)
\* Longest ingest pass (number of RawDocuments one pass emits).
MaxPassLen == 2

\* Longest ingest pass when two indexer processes run side by side.
MaxConcPassLen == 1

\* doc_ids, standing for "<kind>:<source>:<local id>" strings; their integer
\* order is the string order a BTreeMap iterates in.
DocIds == {1, 2}

\* Fingerprints of document versions.
Fingerprints == {"f1", "f2"}

\* Indexer processes.
Procs == {1, 2}

VARIABLES
    index,          \* the committed index: the documents a reloaded reader sees
    manifestFile,   \* manifest.json on disk
    lock,           \* holder of tantivy's writer lock on index_dir, 0 = free
    run,            \* per process: the position and locals of index_sources
    last,           \* summary of the run that ended most recently
    app,            \* the query service: AppState (and the build it runs as)
    cur,            \* the /api/search request being handled, or the last one
    prev,           \* the request handled before cur
    ingest,         \* an ingest pass: its configuration and the documents emitted
    engine          \* a running SearchEngine: its reader and the search in flight

\* What index_sources reads and writes; the ingest pass is written by
\* neither the indexer's steps nor the query service's.
ivars == <<index, manifestFile, lock, run, last, ingest, engine>>

svars == <<app, cur, prev, ingest, engine>>

vars == <<index, manifestFile, lock, run, last, app, cur, prev, ingest, engine>>

\* No ingest pass.
IdleIngest == [pc |-> "idle", max_indexed_chars |-> 0, sources |-> <<>>, docs |-> <<>>]

\* What a reader or a searcher holds: the documents of one commit, and the
\* number of that commit.
Snapshot(opstamp, docs) == [opstamp |-> opstamp, docs |-> docs]

\* No SearchEngine is open.  opstamp counts the commits to index_dir since
\* the engine was opened and log lists what each of them left, from the
\* index the engine was opened on; started_at is the opstamp when the
\* search in flight was called, earlier the newest commit a search that has
\* returned had observed.
ClosedEngine ==
    [pc |-> "closed", opstamp |-> 0, log |-> <<>>,
     reader |-> Snapshot(0, <<>>), searcher |-> Snapshot(0, <<>>),
     started_at |-> 0, earlier |-> 0,
     total_hits |-> 0, count_of |-> Snapshot(0, <<>>),
     top_docs |-> <<>>, top_of |-> Snapshot(0, <<>>)]

(***************************************************************************)
(* Helpers.                                                                *)
(***************************************************************************)
EmptyMap == [k \in {} |-> "f1"]

Put(m, k, v) == [x \in (DOMAIN m) \cup {k} |-> IF x = k THEN v ELSE m[x]]

RECURSIVE SeqsUpTo(_, _)
SeqsUpTo(S, n) ==
    IF n = 0 THEN {<<>>}
    ELSE LET shorter == SeqsUpTo(S, n - 1)
         IN  shorter \cup {Append(s, x) : s \in {t \in shorter : Len(t) = n - 1}, x \in S}

\* The keys of a set of integers in ascending order (BTreeMap::keys).
RECURSIVE SortedKeys(_)
SortedKeys(S) ==
    IF S = {} THEN <<>>
    ELSE LET m == CHOOSE x \in S : \A y \in S : x <= y
         IN  <<m>> \o SortedKeys(S \ {m})

(***************************************************************************)
(* Strings are sequences of one-character strings.                         *)
(***************************************************************************)
Str_kiwix == <<"k", "i", "w", "i", "x">>

Str_kiwix_colon == <<"k", "i", "w", "i", "x", ":">>

UpperCase == <<"A", "B", "C", "D", "E", "F", "G", "H", "I", "J", "K", "L", "M",
               "N", "O", "P", "Q", "R", "S", "T", "U", "V", "W", "X", "Y", "Z">>

LowerCase == <<"a", "b", "c", "d", "e", "f", "g", "h", "i", "j", "k", "l", "m",
               "n", "o", "p", "q", "r", "s", "t", "u", "v", "w", "x", "y", "z">>

Digits == <<"0", "1", "2", "3", "4", "5", "6", "7", "8", "9">>

\* A letter that is not ASCII: one code point, written by its number.
Str_e_acute == "U+00E9"

\* The characters of the model in code point order: ASCII ones and, last,
\* the letter that is not.
Ascii == <<" ", "!", "%", "(", ")", ",", "-", ".", "/">> \o Digits \o <<":">>
            \o UpperCase \o <<"_">> \o LowerCase \o <<Str_e_acute>>

Ord(c) == CHOOSE i \in 1..Len(Ascii) : Ascii[i] = c

InSeq(c, s) == \E i \in 1..Len(s) : s[i] = c

\* char::to_ascii_lowercase
to_ascii_lowercase(c) ==
    IF InSeq(c, UpperCase) THEN LowerCase[CHOOSE i \in 1..Len(UpperCase) : UpperCase[i] = c]
    ELSE c

\* char::is_ascii_alphanumeric
is_ascii_alphanumeric(c) == InSeq(c, UpperCase) \/ InSeq(c, LowerCase) \/ InSeq(c, Digits)

\* char::is_alphanumeric, for the characters of the model
is_alphanumeric(c) == is_ascii_alphanumeric(c) \/ c = Str_e_acute

\* char::is_whitespace, for the characters of the model
is_whitespace(c) == c = " "

to_lowercase(s) == [i \in 1..Len(s) |-> to_ascii_lowercase(s[i])]

RECURSIVE trim_start(_)
trim_start(s) ==
    IF s # <<>> /\ is_whitespace(Head(s)) THEN trim_start(Tail(s)) ELSE s

RECURSIVE trim_end(_)
trim_end(s) ==
    IF s # <<>> /\ is_whitespace(s[Len(s)]) THEN trim_end(SubSeq(s, 1, Len(s) - 1)) ELSE s

\* str::trim
trim(s) == trim_end(trim_start(s))

\* str::starts_with
starts_with(s, prefix) ==
    Len(prefix) <= Len(s) /\ SubSeq(s, 1, Len(prefix)) = prefix

\* str::ends_with
ends_with(s, suffix) ==
    Len(suffix) <= Len(s) /\ SubSeq(s, Len(s) - Len(suffix) + 1, Len(s)) = suffix

\* str::contains
contains(s, pat) ==
    \E i \in 0..(Len(s) - Len(pat)) : SubSeq(s, i + 1, i + Len(pat)) = pat

\* str::eq_ignore_ascii_case
eq_ignore_ascii_case(a, b) == to_lowercase(a) = to_lowercase(b)

\* String::len: the length in bytes of the UTF-8 text; the letter that is
\* not ASCII takes two bytes.
len(s) == Len(s) + Cardinality({i \in 1..Len(s) : s[i] = Str_e_acute})

\* str::cmp: byte-wise lexicographic order, a < b
RECURSIVE str_less(_, _)
str_less(a, b) ==
    IF b = <<>> THEN FALSE
    ELSE IF a = <<>> THEN TRUE
    ELSE IF Head(a) # Head(b) THEN Ord(Head(a)) < Ord(Head(b))
    ELSE str_less(Tail(a), Tail(b))

\* str::split_whitespace
RECURSIVE split_whitespace(_)
split_whitespace(s) ==
    LET t == trim_start(s)
    IN  IF t = <<>> THEN <<>>
        ELSE LET n == IF \E i \in 1..Len(t) : is_whitespace(t[i])
                      THEN (CHOOSE i \in 1..Len(t) :
                                /\ is_whitespace(t[i])
                                /\ \A j \in 1..(i - 1) : ~is_whitespace(t[j])) - 1
                      ELSE Len(t)
             IN  <<SubSeq(t, 1, n)>> \o split_whitespace(SubSeq(t, n + 1, Len(t)))

Min(a, b) == IF a <= b THEN a ELSE b

Max(a, b) == IF a >= b THEN a ELSE b

(***************************************************************************)
(* Option<T>: <<>> is None and <<v>> is Some(v).                           *)
(***************************************************************************)
None == <<>>

Some(v) == <<v>>

(***************************************************************************)
(* usize, 16 bits wide here.  An addition that overflows panics in a build *)
(* with overflow checks and wraps around in a build without them.          *)
(***************************************************************************)
USIZE_MAX == 65535

saturating_add(a, b) == Min(a + b, USIZE_MAX)

saturating_mul(a, b) == Min(a * b, USIZE_MAX)

overflows(a, b) == a + b > USIZE_MAX

wrapping_add(a, b) == (a + b) % (USIZE_MAX + 1)

(***************************************************************************)
(* Scores are f32 in the code and integers here, in units of 1/ScoreUnit:  *)
(* every score the model computes is a whole number of units as long as    *)
(* the query has 1, 2, 3 or 6 tokens.                                      *)
(***************************************************************************)
ScoreUnit == 60

Str_gutenberg == <<"g", "u", "t", "e", "n", "b", "e", "r", "g">>

Str_chapter == <<"c", "h", "a", "p", "t", "e", "r">>

Str_comma_chapters == <<",", " ">> \o Str_chapter \o <<"s">>

Str_chapters_pct20 == Str_chapter \o <<"s", "%", "2", "0">>

Str_cover == <<"c", "o", "v", "e", "r">>

Str_space_cover == <<" ">> \o Str_cover

Str_underscore_cover == <<"_">> \o Str_cover

Str_edition == <<"e", "d", "i", "t", "i", "o", "n">>

Str_dot_html == <<".", "h", "t", "m", "l">>

Str_Untitled == <<"U", "n", "t", "i", "t", "l", "e", "d">>

Str_From == <<"F", "r", "o", "m", " ">>

RECURSIVE normalize_chars(_, _)
normalize_chars(input, last_space) ==
    IF input = <<>> THEN <<>>
    ELSE LET lower == to_ascii_lowercase(Head(input))
         IN  IF is_ascii_alphanumeric(lower)
             THEN <<lower>> \o normalize_chars(Tail(input), FALSE)
             ELSE IF ~last_space
                  THEN <<" ">> \o normalize_chars(Tail(input), TRUE)
                  ELSE normalize_chars(Tail(input), TRUE)

normalize_for_matching(input) == trim(normalize_chars(input, FALSE))

tokenize(normalized_text) == split_whitespace(normalized_text)

\* The coverage in units of 1/ScoreUnit.
token_coverage(query_tokens, target_text) ==
    IF query_tokens = <<>> \/ target_text = <<>> THEN 0
    ELSE LET target_tokens == split_whitespace(target_text)
             exact(q) == InSeq(q, target_tokens)
             prefix(q) ==
                 /\ ~exact(q)
                 /\ Len(q) >= 3
                 /\ \E i \in 1..Len(target_tokens) :
                        \/ starts_with(target_tokens[i], q)
                        \/ starts_with(q, target_tokens[i])
             exact_hits == Cardinality({i \in 1..Len(query_tokens) : exact(query_tokens[i])})
             prefix_hits == Cardinality({i \in 1..Len(query_tokens) : prefix(query_tokens[i])})
         IN  IF target_tokens = <<>> THEN 0
             ELSE ((exact_hits * 10 + prefix_hits * 7) * (ScoreUnit \div 10))
                      \div Len(query_tokens)

rerank_score(hit, normalized_query, query_tokens) ==
    LET base_score == Max(hit.score, 0)
        normalized_title == normalize_for_matching(hit.title)
        normalized_preview == normalize_for_matching(hit.preview)
        normalized_location == normalize_for_matching(hit.location)
        location_lc == to_lowercase(hit.location)
        title_lc == to_lowercase(hit.title)
        source_lc == to_lowercase(hit.source)
        title_coverage == token_coverage(query_tokens, normalized_title)
        preview_coverage == token_coverage(query_tokens, normalized_preview)
        b1 == IF normalized_title = normalized_query THEN 320 * ScoreUnit ELSE 0
        b2 == IF contains(normalized_title, normalized_query) /\ Len(normalized_query) >= 5
              THEN 210 * ScoreUnit ELSE 0
        b3 == title_coverage * 340 + preview_coverage * 90
        is_gutenberg == contains(source_lc, Str_gutenberg)
        g1 == title_coverage * 240
        g2 == IF title_coverage * 10 >= 6 * ScoreUnit THEN 80 * ScoreUnit ELSE 0
        g3 == IF title_coverage * 100 >= 75 * ScoreUnit THEN 220 * ScoreUnit ELSE 0
        g4 == IF title_coverage * 10 >= 9 * ScoreUnit THEN 160 * ScoreUnit ELSE 0
        g5 == IF /\ ~contains(normalized_query, Str_chapter)
                 /\ \/ contains(title_lc, Str_comma_chapters)
                    \/ contains(location_lc, Str_chapters_pct20)
              THEN 0 - 130 * ScoreUnit ELSE 0
        g6 == IF /\ ~contains(normalized_query, Str_cover)
                 /\ \/ contains(title_lc, <<"(">>)
                    \/ contains(title_lc, Str_edition)
              THEN 0 - 35 * ScoreUnit ELSE 0
        g7 == IF /\ ends_with(location_lc, Str_dot_html)
                 /\ ~contains(location_lc, Str_chapters_pct20)
                 /\ ~contains(location_lc, Str_underscore_cover)
              THEN 90 * ScoreUnit ELSE 0
        gutenberg == IF is_gutenberg THEN g1 + g2 + g3 + g4 + g5 + g6 + g7 ELSE 0
        is_cover == \/ contains(normalized_title, Str_space_cover)
                    \/ contains(normalized_location, Str_space_cover)
                    \/ contains(location_lc, Str_underscore_cover)
        c1 == IF is_cover /\ ~contains(normalized_query, Str_cover) THEN 0 - 90 * ScoreUnit ELSE 0
    IN  base_score + b1 + b2 + b3 + gutenberg + c1

\* The comparator without its tie-breaks.
rerank_before_by_score(left, right) == left.score > right.score

\* The comparator of rerank_hits: left sorts before right.
rerank_before(left, right) ==
    \/ left.score > right.score
    \/ /\ left.score = right.score
       /\ \/ len(left.title) < len(right.title)
          \/ /\ len(left.title) = len(right.title)
             /\ str_less(left.title, right.title)

\* slice::sort_by is stable: equal elements keep their order.
RECURSIVE insert_reranked(_, _)
insert_reranked(sorted, x) ==
    IF sorted = <<>> THEN <<x>>
    ELSE IF rerank_before(x, Head(sorted)) THEN <<x>> \o sorted
    ELSE <<Head(sorted)>> \o insert_reranked(Tail(sorted), x)

RECURSIVE sort_reranked(_)
sort_reranked(hits) ==
    IF hits = <<>> THEN <<>>
    ELSE insert_reranked(sort_reranked(SubSeq(hits, 1, Len(hits) - 1)), hits[Len(hits)])

rerank_hits(query, hits) ==
    LET normalized_query == normalize_for_matching(query)
        query_tokens == tokenize(normalized_query)
    IN  IF normalized_query = <<>> \/ hits = <<>> THEN hits
        ELSE IF query_tokens = <<>> THEN hits
        ELSE sort_reranked([i \in 1..Len(hits) |->
                 [hits[i] EXCEPT !.score = rerank_score(hits[i], normalized_query, query_tokens)]])

\* Descending by score, equal scores in their order of arrival.
RECURSIVE insert_by_score(_, _)
insert_by_score(sorted, x) ==
    IF sorted = <<>> THEN <<x>>
    ELSE IF x.score > Head(sorted).score THEN <<x>> \o sorted
    ELSE <<Head(sorted)>> \o insert_by_score(Tail(sorted), x)

RECURSIVE sort_by_score(_)
sort_by_score(hits) ==
    IF hits = <<>> THEN <<>>
    ELSE insert_by_score(sort_by_score(SubSeq(hits, 1, Len(hits) - 1)), hits[Len(hits)])

\* Iterator::skip(n).take(m)
skip_take(s, n, m) == SubSeq(s, n + 1, Min(Len(s), n + m))

\* Option<&str>.map(str::trim).filter(|value| !value.is_empty())
trimmed_nonempty(opt) ==
    IF opt = None \/ trim(opt[1]) = <<>> THEN None ELSE Some(trim(opt[1]))

(***************************************************************************)
(* SearchEngine::search over the committed index.  tantivy's part is       *)
(* abstracted: a document matches when one of the query's terms (the runs  *)
(* of letters and digits, ASCII or not, in lower case) is a term of its    *)
(* title or body, its BM25 score is the document's bm25 field, and a query *)
(* with an unclosed parenthesis does not parse.                            *)
(***************************************************************************)
\* tantivy's default analyzer: the runs of alphanumeric characters, in
\* lower case.
simple_tokens(text) ==
    split_whitespace([i \in 1..Len(text) |->
        IF is_alphanumeric(text[i]) THEN to_ascii_lowercase(text[i]) ELSE " "])

index_terms(doc) == simple_tokens(doc.title) \o simple_tokens(doc.body)

parse_query_ok(query_text) == ~(InSeq("(", query_text) /\ ~InSeq(")", query_text))

matches(doc, query_text, source) ==
    LET terms == simple_tokens(query_text)
    IN  /\ \E i \in 1..Len(terms) : InSeq(terms[i], index_terms(doc))
        /\ source = None \/ doc.source = source[1]

hit_of(doc) ==
    [score |-> doc.bm25 * ScoreUnit, doc_id |-> doc.doc_id, source |-> doc.source,
     title |-> doc.title, preview |-> doc.preview, location |-> doc.location]

engine_search(idx, query_text, limit, offset, source_filter) ==
    LET q == trim(query_text)
        source == trimmed_nonempty(source_filter)
        keep(d) == matches(d, q, source)
        matched == SelectSeq(idx, keep)
        top_docs == sort_by_score([i \in 1..Len(matched) |-> hit_of(matched[i])])
    IN  IF q = <<>> THEN [ok |-> TRUE, total_hits |-> 0, hits |-> <<>>]
        ELSE IF ~parse_query_ok(q) THEN [ok |-> FALSE, total_hits |-> 0, hits |-> <<>>]
        ELSE [ok |-> TRUE, total_hits |-> Len(matched),
              hits |-> skip_take(top_docs, offset, limit)]

\* The same with the outcome of the index I/O: reader.reload, the searches
\* and the document reads fail with Err when io_ok is FALSE.
engine_search_io(idx, query_text, limit, offset, source_filter, io_ok) ==
    IF trim(query_text) # <<>> /\ parse_query_ok(trim(query_text)) /\ ~io_ok
    THEN [ok |-> FALSE, total_hits |-> 0, hits |-> <<>>]
    ELSE engine_search(idx, query_text, limit, offset, source_filter)

(***************************************************************************)
(* KiwixClient.  A collection record also carries what the kiwix server    *)
(* answers for it: whether the request fails, the rows of the result page  *)
(* and the total its header states (None: no total in the header).         *)
(***************************************************************************)
filtered_collections_any_id(collections, source_filter) ==
    LET filter == trimmed_nonempty(source_filter)
    IN  IF filter = None THEN collections
        ELSE IF eq_ignore_ascii_case(filter[1], Str_kiwix) THEN collections
        ELSE IF starts_with(filter[1], Str_kiwix_colon) THEN collections
        ELSE <<>>

filtered_collections(collections, source_filter) ==
    LET filter == trimmed_nonempty(source_filter)
        collection_id == SubSeq(filter[1], Len(Str_kiwix_colon) + 1, Len(filter[1]))
        keep(entry) == entry.id = collection_id
    IN  IF filter = None THEN collections
        ELSE IF eq_ignore_ascii_case(filter[1], Str_kiwix) THEN collections
        ELSE IF starts_with(filter[1], Str_kiwix_colon) THEN SelectSeq(collections, keep)
        ELSE <<>>

\* The loop over the rows of a result page, idx counting from 0.
RECURSIVE parse_rows(_, _, _)
parse_rows(collection, rows, idx) ==
    IF idx >= Len(rows) THEN <<>>
    ELSE LET row == rows[idx + 1]
             hit == [score |-> (500 - idx) * ScoreUnit,
                     doc_id |-> Str_kiwix_colon \o collection.id \o <<":">> \o row.href,
                     source |-> Str_kiwix_colon \o collection.id,
                     title |-> IF row.title = <<>> THEN Str_Untitled ELSE row.title,
                     preview |-> IF row.preview = <<>> THEN Str_From \o collection.title
                                 ELSE row.preview,
                     location |-> row.href]
         IN  (IF trim(row.href) = <<>> THEN <<>> ELSE <<hit>>)
                 \o parse_rows(collection, rows, idx + 1)

parse_search_html(collection, rows) ==
    LET hits == parse_rows(collection, rows, 0)
    IN  [ok |-> TRUE,
         total_hits |-> IF collection.header_total = None THEN Len(hits)
                        ELSE collection.header_total[1],
         hits |-> hits]

\* The server answers with the first pageLength rows.
search_collection(collection, query, page_len) ==
    IF collection.fails THEN [ok |-> FALSE, total_hits |-> 0, hits |-> <<>>]
    ELSE parse_search_html(collection, SubSeq(collection.rows, 1, Min(page_len, Len(collection.rows))))

NoKiwixResult == [total_hits |-> 0, hits |-> <<>>, overflow |-> FALSE, requests |-> <<>>]

\* The loop of KiwixClient::search; overflow records that total_hits += ..
\* went past USIZE_MAX.
RECURSIVE search_collections(_, _, _, _)
search_collections(selected, query, page_len, acc) ==
    IF selected = <<>> THEN acc
    ELSE LET result == search_collection(Head(selected), query, page_len)
             next == IF result.ok
                     THEN [acc EXCEPT
                              !.total_hits = wrapping_add(acc.total_hits, result.total_hits),
                              !.hits = acc.hits \o result.hits,
                              !.overflow = acc.overflow \/ overflows(acc.total_hits, result.total_hits)]
                     ELSE acc
         IN  search_collections(Tail(selected), query, page_len, next)

\* The selected collections in the order of arrival, a sequence of ids.
RECURSIVE in_arrival_order(_, _)
in_arrival_order(selected, arrival) ==
    IF arrival = <<>> THEN <<>>
    ELSE LET keep(entry) == entry.id = Head(arrival)
         IN  SelectSeq(selected, keep) \o in_arrival_order(selected, Tail(arrival))

await_order_by_arrival(selected, arrival) == in_arrival_order(selected, arrival)

\* The order in which the results of the collections are taken up.  arrival
\* is the order in which the server would have its answers ready; the loop
\* awaits each call before it issues the next, so arrival plays no part.
await_order(selected, arrival) == selected

kiwix_search_blank_too(client, query, source_filter, limit, arrival) ==
    LET selected == await_order(filtered_collections(client.collections, source_filter), arrival)
        page_len == Min(Max(client.max_hits_per_collection, Max(limit, 1)), 75)
        result == search_collections(selected, query, page_len, NoKiwixResult)
    IN  IF selected = <<>> THEN NoKiwixResult
        ELSE [result EXCEPT !.hits = sort_by_score(result.hits),
                            !.requests = [i \in 1..Len(selected) |-> selected[i].id]]

\* requests: the ids of the collections an HTTP request was sent for.
kiwix_search(client, query, source_filter, limit, arrival) ==
    LET selected == await_order(filtered_collections(client.collections, source_filter), arrival)
        page_len == Min(Max(client.max_hits_per_collection, Max(limit, 1)), 75)
        result == search_collections(selected, query, page_len, NoKiwixResult)
    IN  IF trim(query) = <<>> \/ limit = 0 THEN NoKiwixResult
        ELSE IF selected = <<>> THEN NoKiwixResult
        ELSE [result EXCEPT !.hits = sort_by_score(result.hits),
                            !.requests = [i \in 1..Len(selected) |-> selected[i].id]]

is_kiwix_filter(value) ==
    eq_ignore_ascii_case(value, Str_kiwix) \/ starts_with(value, Str_kiwix_colon)

\* fetch_count computed with arithmetic that wraps around.
fetch_count_wrapping(offset, limit, max_limit) ==
    Min((wrapping_add(offset, limit) * 3) % (USIZE_MAX + 1),
        Max((max_limit * 20) % (USIZE_MAX + 1), limit))

\* search_handler's locals up to the searches.
fetch_count_of(offset, limit, max_limit) ==
    Min(saturating_mul(saturating_add(offset, limit), 3),
        Max(saturating_mul(max_limit, 20), limit))

\* clamp without its upper bound.
clamp_min_only(v, lo, hi) == IF v < lo THEN lo ELSE v

\* usize::clamp(1, max_limit)
clamp(v, lo, hi) == IF v < lo THEN lo ELSE IF v > hi THEN hi ELSE v

unwrap_or(opt, default) == IF opt = None THEN default ELSE opt[1]

(***************************************************************************)
(* The deployments of the query service: what the index holds, the         *)
(* configuration, the kiwix server, and the requests sent to /api/search.  *)
(***************************************************************************)
\* Largest limit parameter of the paging requests.
MaxPageLimit == 1

\* Largest offset parameter of the paging requests.
MaxOffset == 2

Str_ab == <<"a", "b">>

Str_docs == <<"d", "o", "c", "s">>

Str_notes == <<"n", "o", "t", "e", "s">>

\* A document as index_sources adds it; preview and body are left empty.
LocalDoc(id, source, title, bm25) ==
    [doc_id |-> <<"d", id>>, fingerprint |-> "f1", source |-> source, title |-> title,
     body |-> <<>>, preview |-> <<>>, location |-> <<"/", "d", id>>, bm25 |-> bm25]

\* Four documents of one source; the one BM25 ranks last has the query as
\* its whole title.
PagingCorpus ==
    <<LocalDoc("1", Str_docs, Str_ab \o <<" ", "c">>, 4),
      LocalDoc("2", Str_docs, Str_ab \o <<" ", "e">>, 3),
      LocalDoc("3", Str_docs, Str_ab \o <<" ", "g">>, 2),
      LocalDoc("4", Str_docs, Str_ab, 1)>>

\* Three sources; one of them is named "kiwix" in the configuration.
FilterCorpus ==
    <<LocalDoc("1", Str_docs, Str_ab, 3),
      LocalDoc("2", Str_notes, Str_ab \o <<" ", "c">>, 2),
      LocalDoc("3", Str_kiwix, Str_ab \o <<" ", "e">>, 1),
      LocalDoc("4", Str_docs, <<"x", "y">>, 1)>>

\* OllamaClient::from_config with max_context_hits 1 and the least
\* max_context_chars there is.
OllamaClient == [max_context_hits |-> 1, max_context_chars |-> 500]

Deployments ==
    {[index |-> PagingCorpus, local_sources |-> {Str_docs},
      ollama |-> None, default_limit |-> 2, max_limit |-> 3],
     [index |-> FilterCorpus, local_sources |-> {Str_docs, Str_notes, Str_kiwix},
      ollama |-> Some(OllamaClient), default_limit |-> 2, max_limit |-> 3]}

KiwixRow(href, title) == [href |-> href, title |-> title, preview |-> <<>>]

\* Collections "w", "y" and "z", sorted by id: the call for "y" fails (the
\* rows are what it would have answered), and the page of "z" has a row
\* without a link and states no total.
KiwixCollections(total_w) ==
    <<[id |-> <<"w">>, title |-> <<"W">>, fails |-> FALSE, header_total |-> Some(total_w),
       rows |-> <<KiwixRow(<<"/", "a">>, Str_ab), KiwixRow(<<"/", "b">>, Str_ab \o <<" ", "k">>)>>],
      [id |-> <<"y">>, title |-> <<"Y">>, fails |-> TRUE, header_total |-> Some(1),
       rows |-> <<KiwixRow(<<"/", "y">>, Str_ab)>>],
      [id |-> <<"z">>, title |-> <<"Z">>, fails |-> FALSE, header_total |-> None,
       rows |-> <<KiwixRow(<<>>, Str_ab), KiwixRow(<<"/", "c">>, <<>>)>>]>>

\* No kiwix client; a server whose totals are small; a server that states
\* the largest total a usize holds.
KiwixSetups ==
    {None,
     Some([collections |-> KiwixCollections(2), max_hits_per_collection |-> 2]),
     Some([collections |-> KiwixCollections(USIZE_MAX), max_hits_per_collection |-> 2])}

SearchParams(q, limit, offset, source, answer) ==
    [q |-> q, limit |-> limit, offset |-> offset, source |-> source, answer |-> answer]

SourceParams ==
    {None, Some(<<>>), Some(Str_docs), Some(Str_notes), Some(<<" ">> \o Str_notes \o <<" ">>),
     Some(Str_kiwix), Some(<<"K", "i", "W", "I", "x">>),
     Some(Str_kiwix_colon \o <<"w">>), Some(Str_kiwix_colon \o <<"w", " ">>),
     Some(Str_kiwix_colon \o <<"z">>), Some(Str_kiwix_colon \o <<"q">>)}

\* Requests that differ in their source filter, and a few with a blank or
\* unparsable query or asking for an answer.
FilterRequests ==
    {SearchParams(Some(Str_ab), None, None, source, None) : source \in SourceParams}
        \cup {SearchParams(q, None, None, source, None) :
                 q \in {None, Some(<<"(">>)}, source \in {None, Some(Str_docs), Some(Str_kiwix)}}
        \cup {SearchParams(Some(Str_ab), None, None, None, Some(TRUE))}

\* Requests that differ in limit and offset.
PagingRequests ==
    {SearchParams(Some(Str_ab), limit, offset, source, None) :
        limit \in {None} \cup {Some(l) : l \in 1..MaxPageLimit},
        offset \in {None} \cup {Some(k) : k \in 0..MaxOffset},
        source \in {None, Some(Str_docs)}}

(***************************************************************************)
(* OllamaClient.  A client is its max_context_hits and max_context_chars;  *)
(* the context is modelled by the hits whose chunks it holds.              *)
(***************************************************************************)
\* chunk.len() of "- [{source} | {location}]\n  title: {}\n  preview: {}\n"
chunk_len(hit) ==
    30 + Len(hit.source) + Len(hit.location) + Len(hit.title) + Len(hit.preview)

RECURSIVE build_context_from(_, _, _)
build_context_from(client, hits, chars) ==
    IF hits = <<>> THEN <<>>
    ELSE IF chars + chunk_len(Head(hits)) > client.max_context_chars THEN <<>>
    ELSE <<Head(hits)>> \o build_context_from(client, Tail(hits),
                                              chars + chunk_len(Head(hits)))

build_context(client, hits) ==
    build_context_from(client, SubSeq(hits, 1, Min(Len(hits), client.max_context_hits)), 0)

\* reply is what the generate endpoint does with a request: [ok, response],
\* ok FALSE for a failed call, a status that is no success, or a body that
\* is not the expected JSON.
\* requests counts the HTTP requests sent, context is what the prompt held.
synthesize_answer(client, hits, reply) ==
    LET context == build_context(client, hits)
    IN  IF context = <<>> THEN [ok |-> TRUE, text |-> <<>>, requests |-> 0]
        ELSE IF ~reply.ok THEN [ok |-> FALSE, text |-> <<>>, requests |-> 1]
        ELSE [ok |-> TRUE, text |-> trim(reply.response), requests |-> 1]

synthesizer_hits_ranked(ranked, paged_hits) == ranked

\* The hits handed to synthesize_answer.
synthesizer_hits(ranked, paged_hits) == paged_hits

(***************************************************************************)
(* The HTTP response: 200 with a SearchResponse, or 400 with an            *)
(* ApiErrorBody; code 0 while there is none (or the handler panicked).     *)
(***************************************************************************)
NoResponse == [code |-> 0, error |-> None, total_hits |-> 0, hits |-> <<>>, answer |-> None]

\* Ok(Json(SearchResponse { total_hits, hits, answer }))
ok_response(total_hits, paged_hits, answer) ==
    [code |-> 200, error |-> None, total_hits |-> total_hits, hits |-> paged_hits,
     answer |-> answer]

into_response_ok(message) ==
    [code |-> 200, error |-> Some(message), total_hits |-> 0, hits |-> <<>>, answer |-> None]

\* ApiError::into_response
into_response(message) ==
    [code |-> 400, error |-> Some(message), total_hits |-> 0, hits |-> <<>>, answer |-> None]

\* The handler's position and locals; hits holds the ranked list once
\* rerank_hits has run.
IdleRequest ==
    [pc |-> "idle", params |-> SearchParams(None, None, None, None, None),
     limit |-> 0, offset |-> 0, query |-> <<>>, source_filter |-> None,
     want_answer |-> FALSE, fetch_count |-> 0, local_filter |-> None,
     total_hits |-> 0, hits |-> <<>>, queried_local |-> FALSE, queried_kiwix |-> FALSE,
     status |-> "none", page |-> <<>>, answer |-> None,
     local_failed |-> FALSE,      \* engine.search returned Err
     kiwix_requests |-> <<>>,     \* ids of the collections an HTTP search was sent for
     arrival |-> <<>>,            \* the order in which their answers were ready
     synth_calls |-> <<>>,        \* the hits of each synthesize_answer call
     ollama_requests |-> 0,       \* HTTP requests sent to the generate endpoint
     generated |-> None,          \* what synthesize_answer returned, None for Err
     response |-> NoResponse]

\* The service of a deployment without kiwix and without ollama.
LocalOnlyApp ==
    [kiwix |-> None, ollama |-> None, default_limit |-> 2, max_limit |-> 3,
     local_sources |-> {Str_docs}, overflow_checks |-> FALSE]

(***************************************************************************)
(* RawDocument, as far as the indexer reads it: doc_id and fingerprint.    *)
(* The fingerprint also stands for the version of the document's content.  *)
(* A pass may emit one doc_id more than once: ingest_jsonl takes the id    *)
(* from the record (or the line number) without any check of uniqueness.   *)
(***************************************************************************)
RawDocument == [doc_id : DocIds, fingerprint : Fingerprints]

\* An item of a source that its ingester counts and skips without emitting a
\* document: a file with an extension that is not allowed, unreadable or
\* binary, a line that is blank or no JSON, a row without Id, an empty body.
Rejected == [doc_id |-> 0, fingerprint |-> "rejected"]

\* The documents among the items of a pass.
emitted_of(items) == LET is_doc(item) == item # Rejected IN SelectSeq(items, is_doc)

Passes == SeqsUpTo(RawDocument, MaxPassLen)

\* The passes of the two-process specification: one version per document.
ConcPasses == SeqsUpTo([doc_id : DocIds, fingerprint : {"f1"}], MaxConcPassLen)

IdsOf(docs) == {docs[i].doc_id : i \in 1..Len(docs)}

(***************************************************************************)
(* Manifest file.  fs::write truncates the file and then writes the bytes, *)
(* so between the two the file holds a strict prefix of the JSON text.     *)
(***************************************************************************)
AbsentFile == [state |-> "absent", docs |-> EmptyMap]

PartialFile == [state |-> "partial", docs |-> EmptyMap]

CompleteFile(docs) == [state |-> "complete", docs |-> docs]

\* load_manifest: absent -> default; complete -> its docs; otherwise Err.
load_manifest_ok(file) == file.state \in {"absent", "complete"}

load_manifest(file) == IF file.state = "complete" THEN file.docs ELSE EmptyMap

(***************************************************************************)
(* Index writer operations and their effect at commit.                     *)
(***************************************************************************)
OpDeleteAll == [op |-> "delete_all", doc_id |-> 0, fingerprint |-> ""]

OpDelete(id) == [op |-> "delete_term", doc_id |-> id, fingerprint |-> ""]

OpAdd(doc) == [op |-> "add_document", doc_id |-> doc.doc_id, fingerprint |-> doc.fingerprint]

ApplyOp(idx, o) ==
    CASE o.op = "delete_all" -> <<>>
      [] o.op = "delete_term" -> LET keep(d) == d.doc_id # o.doc_id IN SelectSeq(idx, keep)
      [] o.op = "add_document" -> Append(idx, [doc_id |-> o.doc_id, fingerprint |-> o.fingerprint])

RECURSIVE ApplyOps(_, _)
ApplyOps(idx, ops) ==
    IF ops = <<>> THEN idx ELSE ApplyOps(ApplyOp(idx, Head(ops)), Tail(ops))

(***************************************************************************)
(* index_sources, the locals of one run.                                   *)
(***************************************************************************)
IdleRun ==
    [pc |-> "idle", rebuild |-> FALSE, old_manifest |-> EmptyMap, pass |-> <<>>,
     ops |-> <<>>, new_docs |-> EmptyMap, seen_doc_ids |-> {},
     indexed_count |-> 0, unchanged_count |-> 0, removed_count |-> 0,
     committed |-> FALSE,
     items |-> <<>>,        \* what the ingesters scanned; pass holds what they emitted
     ingest_stats |-> [scanned |-> 0, emitted |-> 0, skipped |-> 0]]

Ended(p) == run[p].pc \in {"idle", "done", "failed", "crashed"}

\* on_doc that adds the changed document without deleting its old version.
on_doc_without_delete(r, doc) ==
    IF /\ doc.doc_id \in DOMAIN r.old_manifest
       /\ ~r.rebuild
       /\ r.old_manifest[doc.doc_id] = doc.fingerprint
    THEN [r EXCEPT !.unchanged_count = @ + 1,
                   !.seen_doc_ids = @ \cup {doc.doc_id},
                   !.new_docs = Put(@, doc.doc_id, r.old_manifest[doc.doc_id])]
    ELSE [r EXCEPT !.seen_doc_ids = @ \cup {doc.doc_id},
                   !.ops = @ \o <<OpAdd(doc)>>,
                   !.new_docs = Put(@, doc.doc_id, doc.fingerprint),
                   !.indexed_count = @ + 1]

\* on_doc that never looks at the old manifest.
on_doc_ignoring_manifest(r, doc) ==
    [r EXCEPT !.seen_doc_ids = @ \cup {doc.doc_id},
              !.ops = @ \o <<OpDelete(doc.doc_id), OpAdd(doc)>>,
              !.new_docs = Put(@, doc.doc_id, doc.fingerprint),
              !.indexed_count = @ + 1]

\* The closure handed to ingest_sources, applied to one document.
on_doc(r, doc) ==
    IF /\ doc.doc_id \in DOMAIN r.old_manifest
       /\ ~r.rebuild
       /\ r.old_manifest[doc.doc_id] = doc.fingerprint
    THEN [r EXCEPT !.unchanged_count = @ + 1,
                   !.seen_doc_ids = @ \cup {doc.doc_id},
                   !.new_docs = Put(@, doc.doc_id, r.old_manifest[doc.doc_id])]
    ELSE [r EXCEPT !.seen_doc_ids = @ \cup {doc.doc_id},
                   !.ops = @ \o <<OpDelete(doc.doc_id), OpAdd(doc)>>,
                   !.new_docs = Put(@, doc.doc_id, doc.fingerprint),
                   !.indexed_count = @ + 1]

\* ingest_sources that counts the items it skips as scanned only.
RECURSIVE ingest_sources_skips_uncounted(_, _)
ingest_sources_skips_uncounted(r, items) ==
    IF items = <<>> THEN r
    ELSE IF Head(items) = Rejected
    THEN ingest_sources_skips_uncounted([r EXCEPT !.ingest_stats.scanned = @ + 1], Tail(items))
    ELSE ingest_sources_skips_uncounted(
             [on_doc(r, Head(items)) EXCEPT !.ingest_stats.scanned = @ + 1,
                                            !.ingest_stats.emitted = @ + 1],
             Tail(items))

\* The ingesters over the items of the sources: every item is counted as
\* scanned, and then either as skipped or, after the closure has taken the
\* document, as emitted.
RECURSIVE ingest_sources(_, _)
ingest_sources(r, items) ==
    IF items = <<>> THEN r
    ELSE IF Head(items) = Rejected
    THEN ingest_sources([r EXCEPT !.ingest_stats.scanned = @ + 1,
                                  !.ingest_stats.skipped = @ + 1], Tail(items))
    ELSE ingest_sources([on_doc(r, Head(items)) EXCEPT !.ingest_stats.scanned = @ + 1,
                                                       !.ingest_stats.emitted = @ + 1],
                        Tail(items))

\* The loop over old_manifest.docs.keys() after the pass.
RECURSIVE remove_unseen(_, _)
remove_unseen(r, keys) ==
    IF keys = <<>> THEN r
    ELSE IF Head(keys) \notin r.seen_doc_ids
         THEN remove_unseen([r EXCEPT !.ops = Append(@, OpDelete(Head(keys))),
                                      !.removed_count = @ + 1], Tail(keys))
         ELSE remove_unseen(r, Tail(keys))

\* should_commit that forgets the removals.
should_commit_ignoring_removed(r) == r.rebuild \/ r.indexed_count > 0

should_commit(r) == r.rebuild \/ r.indexed_count > 0 \/ r.removed_count > 0

IndexStats(r) ==
    [scanned |-> r.ingest_stats.scanned, indexed |-> r.indexed_count,
     skipped |-> r.ingest_stats.skipped + r.unchanged_count, removed |-> r.removed_count]

Summary(r) ==
    [kind |-> r.pc, rebuild |-> r.rebuild, pass |-> r.pass, new_docs |-> r.new_docs]

NoRun == [kind |-> "idle", rebuild |-> FALSE, pass |-> <<>>, new_docs |-> EmptyMap]

(***************************************************************************)
(* Actions of the indexer.                                                 *)
(***************************************************************************)
\* index_sources is called; the old manifest is read (empty when rebuilding).
Start(p, rebuild) ==
    /\ Ended(p)
    /\ rebuild \/ load_manifest_ok(manifestFile)
    /\ run' = [run EXCEPT ![p] = [IdleRun EXCEPT
                  !.pc = "loaded",
                  !.rebuild = rebuild,
                  !.old_manifest = IF rebuild THEN EmptyMap ELSE load_manifest(manifestFile)]]
    /\ last' = IF run[p].pc = "idle" THEN last ELSE Summary(run[p])
    /\ UNCHANGED <<index, manifestFile, lock>>
    /\ UNCHANGED svars

\* load_manifest fails on a file that is not a complete JSON document.
StartFail(p) ==
    /\ Ended(p)
    /\ ~load_manifest_ok(manifestFile)
    /\ run' = [run EXCEPT ![p] = [IdleRun EXCEPT !.pc = "failed"]]
    /\ last' = IF run[p].pc = "idle" THEN last ELSE Summary(run[p])
    /\ UNCHANGED <<index, manifestFile, lock>>
    /\ UNCHANGED svars

\* OpenWriter on a directory without a writer lock.
OpenWriterUnlocked(p) ==
    /\ run[p].pc = "loaded"
    /\ lock' = p
    /\ run' = [run EXCEPT ![p].pc = "writer"]
    /\ UNCHANGED <<index, manifestFile, last>>
    /\ UNCHANGED svars

\* index.writer(..): the writer lock is taken, without waiting.
OpenWriter(p) ==
    /\ run[p].pc = "loaded"
    /\ lock = 0
    /\ lock' = p
    /\ run' = [run EXCEPT ![p].pc = "writer"]
    /\ UNCHANGED <<index, manifestFile, last>>
    /\ UNCHANGED svars

\* index.writer(..) fails while another process holds the lock.
OpenWriterFail(p) ==
    /\ run[p].pc = "loaded"
    /\ lock # 0
    /\ run' = [run EXCEPT ![p] = [IdleRun EXCEPT !.pc = "failed", !.rebuild = run[p].rebuild]]
    /\ UNCHANGED <<index, manifestFile, lock, last>>
    /\ UNCHANGED svars

\* Ingest whose delete_all_documents empties the searchable index at once.
IngestDeletingAtOnce(p, docs) ==
    /\ run[p].pc = "writer"
    /\ LET r0 == [run[p] EXCEPT !.items = docs,
                                !.pass = emitted_of(docs),
                                !.ops = IF run[p].rebuild THEN <<OpDeleteAll>> ELSE <<>>]
           r1 == ingest_sources(r0, docs)
           r2 == IF r1.rebuild THEN r1
                 ELSE remove_unseen(r1, SortedKeys(DOMAIN r1.old_manifest))
       IN  run' = [run EXCEPT ![p] = [r2 EXCEPT !.pc = "ingested"]]
    /\ index' = IF run[p].rebuild THEN <<>> ELSE index
    /\ UNCHANGED <<manifestFile, lock, last>>
    /\ UNCHANGED svars

\* delete_all_documents when rebuilding, the ingest pass, the removal loop.
Ingest(p, docs) ==
    /\ run[p].pc = "writer"
    /\ LET r0 == [run[p] EXCEPT !.items = docs,
                                !.pass = emitted_of(docs),
                                !.ops = IF run[p].rebuild THEN <<OpDeleteAll>> ELSE <<>>]
           r1 == ingest_sources(r0, docs)
           r2 == IF r1.rebuild THEN r1
                 ELSE remove_unseen(r1, SortedKeys(DOMAIN r1.old_manifest))
       IN  run' = [run EXCEPT ![p] = [r2 EXCEPT !.pc = "ingested"]]
    /\ UNCHANGED <<index, manifestFile, lock, last>>
    /\ UNCHANGED svars

\* writer.commit(), when anything changed.  A commit is a new opstamp in
\* the meta file of index_dir, which an open engine's reader loads from.
Commit(p) ==
    /\ run[p].pc = "ingested"
    /\ index' = IF should_commit(run[p]) THEN ApplyOps(index, run[p].ops) ELSE index
    /\ run' = [run EXCEPT ![p].pc = "committed", ![p].committed = should_commit(run[p])]
    /\ engine' = IF should_commit(run[p]) /\ engine.pc # "closed"
                 THEN [engine EXCEPT !.opstamp = @ + 1, !.log = Append(@, index')]
                 ELSE engine
    /\ UNCHANGED <<manifestFile, lock, last>>
    /\ UNCHANGED <<app, cur, prev, ingest>>

\* save_manifest, first half: fs::write opens the file truncating it.
SaveTruncate(p) ==
    /\ run[p].pc = "committed"
    /\ manifestFile' = PartialFile
    /\ run' = [run EXCEPT ![p].pc = "truncated"]
    /\ UNCHANGED <<index, lock, last>>
    /\ UNCHANGED svars

\* save_manifest, second half: all bytes are written.
SaveWrite(p) ==
    /\ run[p].pc = "truncated"
    /\ manifestFile' = CompleteFile(run[p].new_docs)
    /\ run' = [run EXCEPT ![p].pc = "saved"]
    /\ UNCHANGED <<index, lock, last>>
    /\ UNCHANGED svars

\* Ok(IndexStats) is returned; the writer is dropped and its lock released.
Finish(p) ==
    /\ run[p].pc = "saved"
    /\ lock' = 0
    /\ run' = [run EXCEPT ![p].pc = "done"]
    /\ UNCHANGED <<index, manifestFile, last>>
    /\ UNCHANGED svars

\* The process dies; its uncommitted operations are lost, the operating
\* system releases its lock, the files stay as they are.
Crash(p) ==
    /\ run[p].pc \in {"loaded", "writer", "ingested", "committed", "truncated", "saved"}
    /\ lock' = IF lock = p THEN 0 ELSE lock
    /\ run' = [run EXCEPT ![p] = [IdleRun EXCEPT !.pc = "crashed", !.rebuild = run[p].rebuild]]
    /\ UNCHANGED <<index, manifestFile, last>>
    /\ UNCHANGED svars

Init ==
    /\ index = <<>>
    /\ manifestFile = AbsentFile
    /\ lock = 0
    /\ run = [p \in Procs |-> IdleRun]
    /\ last = NoRun
    /\ app = LocalOnlyApp
    /\ cur = IdleRequest
    /\ prev = IdleRequest
    /\ ingest = IdleIngest
    /\ engine = ClosedEngine

RunStep(p, passes) ==
    \/ \E rebuild \in BOOLEAN : Start(p, rebuild)
    \/ OpenWriter(p)
    \/ \E docs \in passes : Ingest(p, docs)
    \/ Commit(p)
    \/ SaveTruncate(p)
    \/ SaveWrite(p)
    \/ Finish(p)

\* One indexer process, runs in succession, every run successful.
Next == RunStep(1, Passes)

Spec == Init /\ [][Next]_vars

\* One indexer process that may die at any point of a run.
NextCrash ==
    \/ RunStep(1, Passes)
    \/ Crash(1)
    \/ StartFail(1)

SpecCrash == Init /\ [][NextCrash]_vars

\* Two indexer processes on the same index_dir.
NextConc ==
    \E p \in Procs :
        \/ RunStep(p, ConcPasses)
        \/ OpenWriterFail(p)

SpecConc == Init /\ [][NextConc]_vars

(***************************************************************************)
(* search_handler, one request at a time.                                  *)
(***************************************************************************)
ManifestOf(idx) ==
    [id \in IdsOf(idx) |-> idx[CHOOSE i \in 1..Len(idx) : idx[i].doc_id = id].fingerprint]

\* The service starts on an index that an indexer run has left behind.
InitSearch ==
    /\ \E d \in Deployments, k \in KiwixSetups, checks \in BOOLEAN :
          /\ index = d.index
          /\ manifestFile = CompleteFile(ManifestOf(d.index))
          /\ app = [kiwix |-> k, ollama |-> d.ollama, default_limit |-> d.default_limit,
                    max_limit |-> d.max_limit, local_sources |-> d.local_sources,
                    overflow_checks |-> checks]
    /\ lock = 0
    /\ run = [p \in Procs |-> IdleRun]
    /\ last = NoRun
    /\ cur = IdleRequest
    /\ prev = IdleRequest
    /\ ingest = IdleIngest
    /\ engine = ClosedEngine

\* The parameters are read and the locals up to local_filter computed.
Receive(params) ==
    /\ cur.pc \in {"idle", "responded"}
    /\ LET limit == clamp(unwrap_or(params.limit, app.default_limit), 1, app.max_limit)
           offset == unwrap_or(params.offset, 0)
           source_filter == trimmed_nonempty(params.source)
       IN  cur' = [IdleRequest EXCEPT
                      !.pc = "received",
                      !.params = params,
                      !.limit = limit,
                      !.offset = offset,
                      !.query = unwrap_or(params.q, <<>>),
                      !.source_filter = source_filter,
                      !.want_answer = unwrap_or(params.answer, FALSE),
                      !.fetch_count = fetch_count_of(offset, limit, app.max_limit),
                      !.local_filter = IF source_filter # None /\ is_kiwix_filter(source_filter[1])
                                       THEN None ELSE source_filter]
    /\ prev' = cur
    /\ UNCHANGED <<app, ivars>>

\* The local engine is searched unless the filter is a kiwix filter; a
\* query that does not parse, or an index that cannot be read, ends the
\* request with an error.
LocalSearch ==
    /\ cur.pc = "received"
    /\ \E io_ok \in BOOLEAN :
          LET after(local_result) ==
                  IF ~(cur.source_filter = None \/ cur.local_filter # None)
                  THEN [cur EXCEPT !.pc = "local_done"]
                  ELSE IF ~local_result.ok
                  THEN [cur EXCEPT !.pc = "responded", !.status = "error",
                                   !.queried_local = TRUE,
                                   !.local_failed = TRUE,
                                   !.response = into_response(<<"l", "o", "c", "a", "l">>)]
                  ELSE [cur EXCEPT !.pc = "local_done",
                                   !.queried_local = TRUE,
                                   !.total_hits = @ + local_result.total_hits,
                                   !.hits = @ \o local_result.hits]
          IN  cur' = after(engine_search_io(index, cur.query, Max(cur.fetch_count, 1), 0,
                                            cur.local_filter, io_ok))
    /\ UNCHANGED <<app, prev, ivars>>

\* The kiwix client, when there is one, is searched unless the filter is a
\* local one.  A sum of totals past USIZE_MAX panics or wraps around.
\* arrival is the order in which the answers of the kiwix-serve are ready.
KiwixSearch ==
    /\ cur.pc = "local_done"
    /\ \E arrival \in {<<<<"w">>, <<"y">>, <<"z">>>>, <<<<"z">>, <<"y">>, <<"w">>>>} :
          LET queried == /\ app.kiwix # None
                         /\ \/ cur.source_filter = None
                            \/ is_kiwix_filter(cur.source_filter[1])
              after(kiwix_result) ==
                  IF /\ \/ kiwix_result.overflow
                        \/ overflows(cur.total_hits, kiwix_result.total_hits)
                     /\ app.overflow_checks
                  THEN [cur EXCEPT !.pc = "responded", !.status = "panic",
                                   !.queried_kiwix = TRUE, !.total_hits = 0, !.hits = <<>>,
                                   !.kiwix_requests = kiwix_result.requests,
                                   !.arrival = IF kiwix_result.requests = <<>>
                                               THEN <<>> ELSE arrival]
                  ELSE [cur EXCEPT !.pc = "kiwix_done",
                                   !.queried_kiwix = TRUE,
                                   !.total_hits = wrapping_add(@, kiwix_result.total_hits),
                                   !.hits = @ \o kiwix_result.hits,
                                   !.kiwix_requests = kiwix_result.requests,
                                   !.arrival = IF kiwix_result.requests = <<>>
                                               THEN <<>> ELSE arrival]
          IN  cur' = IF ~queried
                     THEN [cur EXCEPT !.pc = "kiwix_done"]
                     ELSE after(kiwix_search(app.kiwix[1], cur.query, cur.source_filter,
                                             Max(cur.fetch_count, 1), arrival))
    /\ UNCHANGED <<app, prev, ivars>>

\* rerank_hits, the page, the answer when one is asked for, the response.
\* reply is what the generate endpoint would answer.
Respond ==
    /\ cur.pc = "kiwix_done"
    /\ \E reply \in {[ok |-> FALSE, response |-> <<>>],
                      [ok |-> TRUE, response |-> <<>>],
                      [ok |-> TRUE, response |-> <<" ">>],
                      [ok |-> TRUE, response |-> <<" ", "o", "k">>]} :
          LET called == cur.want_answer /\ app.ollama # None
              \* given: the hits of the call; synth: what it returned
              attach(ranked, paged_hits, given, synth, answer) ==
                  [cur EXCEPT
                      !.pc = "responded",
                      !.hits = ranked,
                      !.status = IF called /\ ~synth.ok THEN "error" ELSE "ok",
                      !.page = IF called /\ ~synth.ok THEN <<>> ELSE paged_hits,
                      !.answer = answer,
                      !.synth_calls = IF called THEN <<given>> ELSE <<>>,
                      !.ollama_requests = IF called THEN synth.requests ELSE 0,
                      !.generated = IF called /\ synth.ok THEN Some(synth.text) ELSE None,
                      !.response = IF called /\ ~synth.ok
                                   THEN into_response(<<"a", "n", "s", "w", "e", "r">>)
                                   ELSE ok_response(cur.total_hits, paged_hits, answer)]
              returned(ranked, paged_hits, given, synth) ==
                  attach(ranked, paged_hits, given, synth,
                         IF called /\ synth.ok /\ synth.text # <<>>
                         THEN Some(synth.text) ELSE None)
              call(ranked, paged_hits, given) ==
                  returned(ranked, paged_hits, given,
                           IF called THEN synthesize_answer(app.ollama[1], given, reply)
                           ELSE [ok |-> TRUE, text |-> <<>>, requests |-> 0])
              page_of(ranked, paged_hits) ==
                  call(ranked, paged_hits, synthesizer_hits(ranked, paged_hits))
              rank(ranked) == page_of(ranked, skip_take(ranked, cur.offset, cur.limit))
          IN  cur' = rank(rerank_hits(cur.query, cur.hits))
    /\ UNCHANGED <<app, prev, ivars>>

\* Requests with every kind of source filter.
NextSearch ==
    \/ \E params \in FilterRequests : Receive(params)
    \/ LocalSearch
    \/ KiwixSearch
    \/ Respond

SpecSearch == InitSearch /\ [][NextSearch]_vars

\* Requests for the pages of one query.
NextPaging ==
    \/ \E params \in PagingRequests : Receive(params)
    \/ LocalSearch
    \/ KiwixSearch
    \/ Respond

SpecPaging == InitSearch /\ [][NextPaging]_vars

(***************************************************************************)
(* What the disk holds.                                                    *)
(***************************************************************************)
\* SearchEngine::search reloads the reader, so it sees the committed index;
\* every hit is materialised from a document of that snapshot.
SearchableIds == IdsOf(index)

CopiesOf(id) == Cardinality({i \in 1..Len(index) : index[i].doc_id = id})

ManifestIds == DOMAIN manifestFile.docs

ManifestIndexEquivalent ==
    /\ manifestFile.state = "complete"
    /\ ManifestIds = IdsOf(index)
    /\ \A id \in ManifestIds : CopiesOf(id) = 1

HoldsWriter(p) == run[p].pc \in {"writer", "ingested", "committed", "truncated", "saved"}

\* Run 2 directly follows a successful incremental run 1 of the same process.
SecondOfTwo ==
    /\ run[1].pc = "done"
    /\ ~run[1].rebuild
    /\ last.kind = "done"

(***************************************************************************)
(* Claims.                                                                 *)
(***************************************************************************)
\* C1: two incremental runs in succession over the same emitted documents:
\* the second reports indexed = 0 and removed = 0, counts every emitted
\* document as unchanged, and writes the manifest the first one wrote.
C1_IdempotentIndexing ==
    (SecondOfTwo /\ ~last.rebuild /\ last.pass = run[1].pass) =>
        /\ IndexStats(run[1]).indexed = 0
        /\ IndexStats(run[1]).removed = 0
        /\ run[1].unchanged_count = Len(run[1].pass)
        /\ manifestFile = CompleteFile(last.new_docs)

\* C2: after every successful run the manifest's doc_ids are the doc_ids of
\* the committed index, each with exactly one indexed document.
C2_ManifestIndexEquivalence ==
    run[1].pc = "done" => ManifestIndexEquivalent

C2_Witness ==
    /\ SecondOfTwo
    /\ run[1].indexed_count > 0
    /\ run[1].removed_count > 0
    /\ run[1].unchanged_count > 0

\* C3: a doc_id emitted and recorded by run 1 and not emitted by the
\* successful incremental run 2 is deleted by run 2 and counted in removed,
\* is absent from the manifest run 2 writes, and no later search returns it.
Vanished == (IdsOf(last.pass) \cap DOMAIN last.new_docs) \ IdsOf(run[1].pass)

C3_DeletionCoverage ==
    SecondOfTwo =>
        \A d \in Vanished :
            /\ \E i \in 1..Len(run[1].ops) : run[1].ops[i] = OpDelete(d)
            /\ IndexStats(run[1]).removed >= 1
            /\ run[1].committed
            /\ d \notin ManifestIds
            /\ d \notin SearchableIds

C3_Witness ==
    /\ SecondOfTwo
    /\ Vanished # {}
    /\ index # <<>>

\* C4: wherever an indexer run dies, manifest.json is absent or holds a
\* complete manifest, never a part of one.
C4_ManifestNeverHalfWritten ==
    run[1].pc = "crashed" => manifestFile.state \in {"absent", "complete"}

\* C5: the incremental run that follows a crashed run succeeds, and leaves
\* the manifest's doc_ids equal to those of the committed index.
C5_CrashRecovery ==
    (last.kind = "crashed" /\ ~run[1].rebuild /\ run[1].pc \in {"done", "failed"}) =>
        /\ run[1].pc = "done"
        /\ ManifestIndexEquivalent

\* C6: at most one process holds the index writer; a process that finds the
\* writer lock taken ends its run with an error, and that step changes
\* neither the committed index nor the manifest file.
C6_SingleWriter ==
    [][/\ \A p, q \in Procs : (HoldsWriter(p)' /\ HoldsWriter(q)') => p = q
       /\ \A p \in Procs :
            (run[p].pc = "loaded" /\ lock \notin {0, p} /\ run'[p] # run[p]) =>
                /\ run'[p].pc = "failed"
                /\ index' = index
                /\ manifestFile' = manifestFile
                /\ lock' = lock]_vars

C6_Witness ==
    \E p, q \in Procs :
        /\ run[p].pc = "failed"
        /\ HoldsWriter(q)
        /\ run[q].indexed_count > 0

(***************************************************************************)
(* Claims about the query service.                                         *)
(***************************************************************************)
\* The request r was answered with 200 and a SearchResponse.
Responded(r) == r.pc = "responded" /\ r.status = "ok"

SourcesOf(hits) == {hits[i].source : i \in 1..Len(hits)}

DocIdsOf(hits) == {hits[i].doc_id : i \in 1..Len(hits)}

CollectionIds == IF app.kiwix = None THEN {}
                 ELSE {app.kiwix[1].collections[i].id : i \in 1..Len(app.kiwix[1].collections)}

\* C7: a request with source=X, X a configured local source name: every
\* returned hit has source X, the kiwix client is not queried, and no
\* returned hit has a source that starts with "kiwix:".
C7_LocalSourceFilter ==
    (/\ Responded(cur)
     /\ cur.params.source # None
     /\ cur.params.source[1] \in app.local_sources) =>
        /\ \A src \in SourcesOf(cur.page) : src = cur.params.source[1]
        /\ ~cur.queried_kiwix
        /\ \A src \in SourcesOf(cur.page) : ~starts_with(src, Str_kiwix_colon)

\* C8 as stated: with source=kiwix in any letter case every returned hit
\* has a source that starts with "kiwix:" and the local engine is not
\* queried; with source=kiwix:Y every returned hit has the source
\* parameter itself as its source, and none is returned when no collection
\* has the id Y.
C8_KiwixSourceFilter_AsStated ==
    (Responded(cur) /\ cur.params.source # None) =>
        LET source == cur.params.source[1]
            Y == SubSeq(source, Len(Str_kiwix_colon) + 1, Len(source))
        IN  /\ eq_ignore_ascii_case(source, Str_kiwix) =>
                /\ \A src \in SourcesOf(cur.page) : starts_with(src, Str_kiwix_colon)
                /\ ~cur.queried_local
            /\ starts_with(source, Str_kiwix_colon) =>
                /\ \A src \in SourcesOf(cur.page) : src = source
                /\ Y \notin CollectionIds => cur.page = <<>>

\* C8, amended: the same with the source parameter trimmed of surrounding
\* whitespace, as the handler and the kiwix client read it; the local
\* engine is not queried in either case.
C8_KiwixSourceFilter ==
    (Responded(cur) /\ cur.params.source # None) =>
        LET source == trim(cur.params.source[1])
            Y == SubSeq(source, Len(Str_kiwix_colon) + 1, Len(source))
        IN  /\ eq_ignore_ascii_case(source, Str_kiwix) =>
                /\ \A src \in SourcesOf(cur.page) : starts_with(src, Str_kiwix_colon)
                /\ ~cur.queried_local
            /\ starts_with(source, Str_kiwix_colon) =>
                /\ \A src \in SourcesOf(cur.page) : src = source
                /\ ~cur.queried_local
                /\ Y \notin CollectionIds => cur.page = <<>>

\* A request with source=KiWIx answered with kiwix hits, followed by one
\* with source="kiwix:w " answered with hits of collection "w".
C8_Witness ==
    /\ Responded(prev)
    /\ prev.params.source # None
    /\ eq_ignore_ascii_case(prev.params.source[1], Str_kiwix)
    /\ prev.params.source[1] # Str_kiwix
    /\ Len(prev.page) >= 2
    /\ ~prev.queried_local
    /\ Responded(cur)
    /\ cur.params.source = Some(Str_kiwix_colon \o <<"w", " ">>)
    /\ cur.page # <<>>

\* C9: two requests that differ in nothing but the offset, the first with
\* offset 0 and the second with offset k: the i-th hit of the second page
\* is the (k+i)-th hit of the ranked list the first page was taken from,
\* no hit of that list is skipped, and two pages that lie at least limit
\* apart share no hit.
SamePaging(a, b) ==
    /\ a.params.q = b.params.q
    /\ a.params.source = b.params.source
    /\ a.params.limit = b.params.limit

C9_OffsetShiftsOneOrdering ==
    (Responded(prev) /\ Responded(cur) /\ SamePaging(prev, cur)) =>
        /\ prev.offset = 0 =>
              /\ \A i \in 1..Len(cur.page) :
                    /\ cur.offset + i <= Len(prev.hits)
                    /\ cur.page[i].doc_id = prev.hits[cur.offset + i].doc_id
              /\ \A i \in 1..cur.limit :
                    cur.offset + i <= Len(prev.hits) => i <= Len(cur.page)
        /\ (cur.offset >= prev.offset + prev.limit \/ prev.offset >= cur.offset + cur.limit) =>
              DocIdsOf(prev.page) \cap DocIdsOf(cur.page) = {}

\* C10: the unfiltered request and then the same request restricted to a
\* local source name, to source=kiwix or to a source=kiwix:<id>: total_hits
\* of the first is at least total_hits of the second.
Restricted(source) ==
    \/ source \in app.local_sources
    \/ source = Str_kiwix
    \/ starts_with(source, Str_kiwix_colon)

C10_FederationMonotonicity ==
    (/\ Responded(prev)
     /\ Responded(cur)
     /\ prev.params = [cur.params EXCEPT !.source = None]
     /\ cur.params.source # None
     /\ Restricted(cur.params.source[1])) =>
        prev.total_hits >= cur.total_hits

\* The collection of the client that has the id.
collection_of(id) ==
    LET has_id(entry) == entry.id = id
    IN  Head(SelectSeq(app.kiwix[1].collections, has_id))

\* What the calls that succeeded among the requests returned: their hits,
\* one after the other, and the sum of their totals.
RECURSIVE succeeded(_, _, _)
succeeded(requests, query, page_len) ==
    IF requests = <<>> THEN [total_hits |-> 0, hits |-> <<>>]
    ELSE LET result == search_collection(collection_of(Head(requests)), query, page_len)
             rest == succeeded(Tail(requests), query, page_len)
         IN  IF result.ok
             THEN [total_hits |-> result.total_hits + rest.total_hits,
                   hits |-> result.hits \o rest.hits]
             ELSE rest

\* What the local engine returned to the request r, nothing when it was not
\* queried.
local_result_of(r) ==
    IF r.queried_local
    THEN engine_search(index, r.query, Max(r.fetch_count, 1), 0, r.local_filter)
    ELSE [ok |-> TRUE, total_hits |-> 0, hits |-> <<>>]

\* The call for some collection of the request r failed.
SomeCallFailed(r) ==
    \E i \in 1..Len(r.kiwix_requests) : collection_of(r.kiwix_requests[i]).fails

\* The synthesizer was called for the request r and returned an error.
SynthesizerFailed(r) == r.synth_calls # <<>> /\ r.generated = None

\* C11: when the call for some of the selected collections fails, and
\* neither the local engine nor the synthesizer does, the request is
\* answered with 200, its hits are the local hits and the hits of the
\* collections whose call succeeded, none of a failed one, and total_hits
\* is the local total plus the totals of the collections that succeeded.
C11_RemoteFailuresNonFatal ==
    (/\ cur.pc = "responded"
     /\ SomeCallFailed(cur)
     /\ ~cur.local_failed
     /\ ~SynthesizerFailed(cur)) =>
        LET page_len == Min(Max(app.kiwix[1].max_hits_per_collection,
                                Max(Max(cur.fetch_count, 1), 1)), 75)
            remote == succeeded(cur.kiwix_requests, cur.query, page_len)
            local == local_result_of(cur)
        IN  /\ cur.response.code = 200
            /\ DocIdsOf(cur.hits) = DocIdsOf(local.hits) \cup DocIdsOf(remote.hits)
            /\ Len(cur.hits) = Len(local.hits) + Len(remote.hits)
            /\ cur.response.total_hits = local.total_hits + remote.total_hits

\* The local engine was searched for the request r and returned an error:
\* the query does not parse, or the index could not be read.
LocalEngineFailed(r) ==
    \/ r.local_failed
    \/ /\ r.queried_local
       /\ trim(r.query) # <<>>
       /\ ~parse_query_ok(trim(r.query))

\* C12: a request in which the local engine or the answer synthesizer
\* failed is answered with status 400 and a body that holds an error
\* message and no hits, no total and no answer.
C12_FatalQueryErrors ==
    (cur.pc = "responded" /\ (LocalEngineFailed(cur) \/ SynthesizerFailed(cur))) =>
        /\ cur.response.code = 400
        /\ cur.response.error # None
        /\ cur.response.hits = <<>>
        /\ cur.response.total_hits = 0
        /\ cur.response.answer = None

\* The synthesizer failed after the local engine and the collections were
\* searched and ranked hits were at hand.
C12_Witness ==
    /\ cur.pc = "responded"
    /\ SynthesizerFailed(cur)
    /\ cur.queried_local
    /\ cur.queried_kiwix
    /\ Len(cur.hits) >= 2
    /\ cur.response.code = 400

(***************************************************************************)
(* Single requests with every combination of a blank, plain or unparsable  *)
(* query with limit, offset, source and answer, on deployments with and    *)
(* without an answer synthesizer.                                          *)
(***************************************************************************)
\* The deployments, and one more with two documents, the first of a
\* source with a name so long that its chunk is longer than
\* max_context_chars.
AnswerDeployments ==
    LET long_name == [i \in 1..480 |-> "s"]
    IN  Deployments \cup
            {[index |-> <<LocalDoc("1", long_name, Str_ab, 2),
                          LocalDoc("2", Str_docs, Str_ab \o <<" ", "c">>, 1)>>,
              local_sources |-> {Str_docs, long_name},
              ollama |-> Some(OllamaClient), default_limit |-> 2, max_limit |-> 3]}

AnswerRequests ==
    {SearchParams(q, limit, offset, source, answer) :
        q \in {None, Some(<<>>), Some(<<" ">>), Some(Str_ab), Some(<<"(">>)},
        limit \in {None, Some(0), Some(1)},
        offset \in {None, Some(1)},
        source \in {None, Some(Str_docs), Some(Str_kiwix)},
        answer \in {None, Some(FALSE), Some(TRUE)}}

InitAnswer ==
    /\ \E d \in AnswerDeployments, k \in KiwixSetups, checks \in BOOLEAN :
          /\ index = d.index
          /\ manifestFile = CompleteFile(ManifestOf(d.index))
          /\ app = [kiwix |-> k, ollama |-> d.ollama, default_limit |-> d.default_limit,
                    max_limit |-> d.max_limit, local_sources |-> d.local_sources,
                    overflow_checks |-> checks]
    /\ lock = 0
    /\ run = [p \in Procs |-> IdleRun]
    /\ last = NoRun
    /\ cur = IdleRequest
    /\ prev = IdleRequest
    /\ ingest = IdleIngest
    /\ engine = ClosedEngine

\* One request for each behaviour.
NextAnswer ==
    \/ \E params \in AnswerRequests : cur.pc = "idle" /\ Receive(params)
    \/ LocalSearch
    \/ KiwixSearch
    \/ Respond

SpecAnswer == InitAnswer /\ [][NextAnswer]_vars

\* C13: a request whose q is missing, empty or whitespace only, whatever
\* its limit, offset, source and answer, is answered with 200, total_hits
\* 0, no hits and a null answer, and no HTTP request is sent to the
\* kiwix-serve or to the generate endpoint.
C13_BlankQuery ==
    (cur.pc = "responded" /\ trim(unwrap_or(cur.params.q, <<>>)) = <<>>) =>
        /\ cur.response = ok_response(0, <<>>, None)
        /\ cur.kiwix_requests = <<>>
        /\ cur.ollama_requests = 0

\* A whitespace query that asks for an answer, on a deployment with
\* collections and a synthesizer: both clients were called.
C13_Witness ==
    /\ cur.pc = "responded"
    /\ cur.params.q = Some(<<" ">>)
    /\ cur.params.limit = Some(0)
    /\ cur.queried_kiwix
    /\ cur.synth_calls # <<>>
    /\ cur.response.code = 200

\* C14: two answered requests with the same parameters, on the same index
\* and the same collections, return the same hits in the same order (and
\* the same merged ranking and total), in whatever order the answers of the
\* collections were ready.
C14_DeterministicRanking ==
    (/\ Responded(prev)
     /\ Responded(cur)
     /\ prev.params = cur.params) =>
        /\ prev.response.hits = cur.response.hits
        /\ prev.hits = cur.hits
        /\ prev.response.total_hits = cur.response.total_hits

\* The same request twice, with hits of two collections that tie in score
\* and with the answers ready in different orders.
C14_Witness ==
    /\ Responded(prev)
    /\ Responded(cur)
    /\ prev.params = cur.params
    /\ prev.arrival # <<>>
    /\ cur.arrival # <<>>
    /\ prev.arrival # cur.arrival
    /\ cur.response.hits # <<>>
    /\ \E i, j \in 1..Len(cur.hits) :
          /\ cur.hits[i].source # cur.hits[j].source
          /\ cur.hits[i].score = cur.hits[j].score

(***************************************************************************)
(* Single requests for a book on an index that holds the book whole and    *)
(* split in chapters, both of the source gutenberg and with the same BM25  *)
(* score and preview.                                                      *)
(***************************************************************************)
\* The whole book is document 1, its chapters 1-5 are document 2.  A book
\* is its title and the queries that ask for it; a location is
\* "/A/{stem}.html".
GutenbergCorpora ==
    LET Moby == <<"M", "o", "b", "y">>
        Dick == <<"D", "i", "c", "k">>
        moby == to_lowercase(Moby)
        HtmlLocation(stem) == <<"/", "A", "/">> \o stem \o Str_dot_html
        Books ==
            {[title |-> Moby \o <<" ">> \o Dick,
              queries |-> {moby \o <<" ">> \o to_lowercase(Dick), Moby \o <<"-">> \o Dick}],
             [title |-> Moby \o <<" ", "(">> \o Dick \o <<")">>,
              queries |-> {Moby \o <<" ", " ">> \o Dick \o <<"!">>}],
             [title |-> <<Str_e_acute>>, queries |-> {<<Str_e_acute>>}]}
        whole(book, stem) ==
            [LocalDoc("1", Str_gutenberg, book.title, 2) EXCEPT !.location = HtmlLocation(stem)]
        split(book, stem) ==
            [LocalDoc("2", Str_gutenberg,
                      book.title \o <<",", " ", "C">> \o Tail(Str_chapter) \o
                          <<"s", " ", "1", "-", "5">>, 2) EXCEPT
                !.location = HtmlLocation(stem)]
    IN  {[index |-> IF whole_first
                    THEN <<whole(book, whole_stem), split(book, split_stem)>>
                    ELSE <<split(book, split_stem), whole(book, whole_stem)>>,
          queries |-> book.queries] :
            book \in Books,
            whole_stem \in {moby \o <<"_">> \o to_lowercase(Dick),
                            moby \o <<"-">> \o Tail(Str_space_cover)},
            split_stem \in {moby \o <<"_", "1">>, Str_chapters_pct20 \o <<"1">>},
            whole_first \in BOOLEAN}

InitGutenberg ==
    /\ \E corpus \in GutenbergCorpora, k \in KiwixSetups, checks \in BOOLEAN :
          /\ index = corpus.index
          /\ manifestFile = CompleteFile(ManifestOf(corpus.index))
          /\ app = [kiwix |-> k, ollama |-> None, default_limit |-> 2, max_limit |-> 3,
                    local_sources |-> {Str_gutenberg}, overflow_checks |-> checks]
    /\ lock = 0
    /\ run = [p \in Procs |-> IdleRun]
    /\ last = NoRun
    /\ cur = IdleRequest
    /\ prev = IdleRequest
    /\ ingest = IdleIngest
    /\ engine = ClosedEngine

\* One request for each behaviour, for a book of the index.
NextGutenberg ==
    \/ \E q \in UNION {corpus.queries : corpus \in {c \in GutenbergCorpora : c.index = index}},
          source \in {None, Some(Str_gutenberg)} :
          cur.pc = "idle" /\ Receive(SearchParams(Some(q), None, None, source, None))
    \/ LocalSearch
    \/ KiwixSearch
    \/ Respond

SpecGutenberg == InitGutenberg /\ [][NextGutenberg]_vars

\* The BM25 score of the indexed document the hit was made from.
base_score_of(hit) ==
    LET made_from(doc) == doc.doc_id = hit.doc_id
    IN  hit_of(Head(SelectSeq(index, made_from))).score

\* Hit A of the claim: the whole book the query names.
IsFullBook(hit, query) ==
    /\ hit.source = Str_gutenberg
    /\ normalize_for_matching(hit.title) = normalize_for_matching(query)
    /\ ends_with(hit.location, Str_dot_html)
    /\ ~contains(hit.location, Str_chapters_pct20)
    /\ ~contains(hit.location, Str_underscore_cover)

\* Hit B of the claim: a split of chapters.
IsChapterSplit(hit) ==
    /\ hit.source = Str_gutenberg
    /\ contains(to_lowercase(hit.title), Str_comma_chapters)

\* C15: for a query without "chapter", of two hits of the source gutenberg
\* with the same base score and the same preview, one the whole book whose
\* normalized title is the normalized query and whose location ends in
\* ".html" and has no "chapters%20" and no "_cover", the other with
\* ", chapters" in its title, rerank_hits puts the whole book first.
C15_GutenbergFullBookFirst ==
    Responded(cur) =>
        \A i, j \in 1..Len(cur.hits) :
            (/\ ~contains(normalize_for_matching(cur.query), Str_chapter)
             /\ IsFullBook(cur.hits[i], cur.query)
             /\ IsChapterSplit(cur.hits[j])
             /\ base_score_of(cur.hits[i]) = base_score_of(cur.hits[j])
             /\ cur.hits[i].preview = cur.hits[j].preview) => i < j

(***************************************************************************)
(* Ingestion.  A source is its kind, name, path and items: the files of a  *)
(* directory walk, the lines of a JSONL file or the rows of a posts file.  *)
(* An item is one record for all kinds: what (file, blank, invalid,        *)
(* object, row), the raw relative path rel of a file, id, title and body   *)
(* as optional JSON values (for a row, its attributes; for a file, body is *)
(* its text), plain (what html2text makes of a row's body), stamp (the     *)
(* file's "len:mtime", the hash of the line, the row's LastActivityDate)   *)
(* and skipped (a file with an extension that is not allowed, unreadable   *)
(* or binary).  A JSON value is [type, str, num].                          *)
(***************************************************************************)
\* The greatest max_indexed_chars of the configurations.
MaxIndexedChars == 3

\* usize::to_string
RECURSIVE to_string(_)
to_string(n) ==
    IF n < 10 THEN <<Digits[n + 1]>> ELSE to_string(n \div 10) \o <<Digits[(n % 10) + 1]>>

value_to_string(value) ==
    IF value = None THEN None
    ELSE IF value[1].type = "string" THEN Some(value[1].str)
    ELSE IF value[1].type = "number" THEN Some(to_string(value[1].num))
    ELSE IF value[1].type = "bool"
    THEN Some(IF value[1].num = 1 THEN <<"t", "r", "u", "e">> ELSE <<"f", "a", "l", "s", "e">>)
    ELSE None

normalize_whitespace(input) ==
    LET RECURSIVE collapse(_, _)
        collapse(rest, last_was_space) ==
            IF rest = <<>> THEN <<>>
            ELSE IF is_whitespace(Head(rest))
            THEN IF last_was_space THEN collapse(Tail(rest), TRUE)
                 ELSE <<" ">> \o collapse(Tail(rest), TRUE)
            ELSE <<Head(rest)>> \o collapse(Tail(rest), FALSE)
    IN  trim(collapse(input, FALSE))

truncate_chars(input, max_chars) ==
    IF max_chars = 0 THEN <<>> ELSE SubSeq(input, 1, Min(Len(input), max_chars))

preview_from_text(input, max_chars) ==
    LET truncated == truncate_chars(input, max_chars)
    IN  IF Len(truncated) < Len(input) THEN truncated \o <<".", ".", ".">> ELSE truncated

\* The documents one file of a filesystem source emits: none or one.
ingest_filesystem(max_indexed_chars, source, file) ==
    LET rel == file.rel
        rel_str == [i \in 1..Len(rel) |-> IF rel[i] = "\\" THEN "/" ELSE rel[i]]
        slashes == {i \in 1..Len(rel) : rel[i] = "/"}
        name == SubSeq(rel, (IF slashes = {} THEN 0
                             ELSE CHOOSE i \in slashes : \A j \in slashes : j <= i) + 1, Len(rel))
        dots == {i \in 2..Len(name) : name[i] = "."}
        stem == IF dots = {} THEN name
                ELSE SubSeq(name, 1, (CHOOSE i \in dots : \A j \in dots : j <= i) - 1)
        path_to_title == [i \in 1..Len(stem) |-> IF stem[i] \in {"_", "-"} THEN " " ELSE stem[i]]
        title == normalize_whitespace(path_to_title)
        body == truncate_chars(normalize_whitespace(unwrap_or(value_to_string(file.body), <<>>)),
                               max_indexed_chars)
    IN  IF file.skipped \/ body = <<>> THEN <<>>
        ELSE <<[doc_id |-> <<"f", "s", ":">> \o source.name \o <<":">> \o rel_str,
                source |-> source.name,
                title |-> IF title = <<>> THEN rel_str ELSE title,
                preview |-> preview_from_text(body, 280),
                body |-> body,
                location |-> rel_str,
                fingerprint |-> file.stamp]>>

\* The documents one line of a JSONL source emits; line_idx counts from 0.
ingest_jsonl(max_indexed_chars, source, line, line_idx) ==
    LET id == unwrap_or(value_to_string(line.id), to_string(line_idx + 1))
        Document_id == <<"D", "o", "c", "u", "m", "e", "n", "t", " ">> \o id
        title == normalize_whitespace(unwrap_or(value_to_string(line.title), Document_id))
        body == truncate_chars(normalize_whitespace(unwrap_or(value_to_string(line.body), <<>>)),
                               max_indexed_chars)
    IN  IF line.what # "object" \/ body = <<>> THEN <<>>
        ELSE <<[doc_id |-> <<"j", "s", "o", "n", "l", ":">> \o source.name \o <<":">> \o id,
                source |-> source.name,
                title |-> IF title = <<>> THEN Document_id ELSE title,
                preview |-> preview_from_text(body, 280),
                body |-> body,
                location |-> source.path \o <<":">> \o to_string(line_idx + 1),
                fingerprint |-> line.stamp]>>

\* The documents one row of a posts file emits.
process_stackexchange_row(max_indexed_chars, source, row) ==
    LET id == unwrap_or(value_to_string(row.id), <<>>)
        body_raw == unwrap_or(value_to_string(row.body), <<>>)
        body_plain == IF body_raw = <<>> THEN <<>> ELSE row.plain
        truncated == truncate_chars(normalize_whitespace(body_plain), max_indexed_chars)
        Post_id == <<"P", "o", "s", "t", " ">> \o id
        infer_title_from_body == IF truncated = <<>> THEN Post_id
                                 ELSE preview_from_text(truncated, 80)
        given == normalize_whitespace(unwrap_or(value_to_string(row.title), infer_title_from_body))
        title == IF given = <<>> THEN Post_id ELSE given
        body == IF truncated = <<>> THEN title ELSE truncated
    IN  IF row.id = None THEN <<>>
        ELSE IF truncated = <<>> /\ trim(unwrap_or(value_to_string(row.title), <<>>)) = <<>>
        THEN <<>>
        ELSE <<[doc_id |-> <<"s", "t", "a", "c", "k", "e", "x", "c", "h", "a", "n", "g", "e", ":">>
                               \o source.name \o <<":">> \o id,
                source |-> source.name,
                title |-> title,
                preview |-> preview_from_text(body, 280),
                body |-> body,
                location |-> source.path \o <<"#">> \o id,
                fingerprint |-> row.stamp \o <<":">> \o to_string(Len(body_raw))]>>

RECURSIVE flatten(_)
flatten(seqs) == IF seqs = <<>> THEN <<>> ELSE Head(seqs) \o flatten(Tail(seqs))

\* ingest_sources takes the sources in the order of the configuration; the
\* three steps ingest the next source, by its kind.
IngestFilesystem ==
    /\ ingest.pc = "running"
    /\ Head(ingest.sources).kind = "filesystem"
    /\ LET source == Head(ingest.sources)
       IN  ingest' = [ingest EXCEPT
                         !.docs = @ \o flatten([i \in 1..Len(source.items) |->
                                      ingest_filesystem(ingest.max_indexed_chars, source,
                                                        source.items[i])]),
                         !.sources = Tail(@),
                         !.pc = IF Tail(ingest.sources) = <<>> THEN "done" ELSE "running"]
    /\ UNCHANGED <<index, manifestFile, lock, run, last, app, cur, prev, engine>>

IngestJsonl ==
    /\ ingest.pc = "running"
    /\ Head(ingest.sources).kind = "jsonl"
    /\ LET source == Head(ingest.sources)
       IN  ingest' = [ingest EXCEPT
                         !.docs = @ \o flatten([i \in 1..Len(source.items) |->
                                      ingest_jsonl(ingest.max_indexed_chars, source,
                                                   source.items[i], i - 1)]),
                         !.sources = Tail(@),
                         !.pc = IF Tail(ingest.sources) = <<>> THEN "done" ELSE "running"]
    /\ UNCHANGED <<index, manifestFile, lock, run, last, app, cur, prev, engine>>

IngestStackExchange ==
    /\ ingest.pc = "running"
    /\ Head(ingest.sources).kind = "stackexchange_xml"
    /\ LET source == Head(ingest.sources)
       IN  ingest' = [ingest EXCEPT
                         !.docs = @ \o flatten([i \in 1..Len(source.items) |->
                                      process_stackexchange_row(ingest.max_indexed_chars, source,
                                                                source.items[i])]),
                         !.sources = Tail(@),
                         !.pc = IF Tail(ingest.sources) = <<>> THEN "done" ELSE "running"]
    /\ UNCHANGED <<index, manifestFile, lock, run, last, app, cur, prev, engine>>

\* The configurations: max_indexed_chars and one or two sources.
IngestConfigs ==
    LET Str(s) == Some([type |-> "string", str |-> s, num |-> 0])
        Num(n) == Some([type |-> "number", str |-> <<>>, num |-> n])
        Item(what, rel, id, title, body, plain, stamp, skipped) ==
            [what |-> what, rel |-> rel, id |-> id, title |-> title, body |-> body,
             plain |-> plain, stamp |-> stamp, skipped |-> skipped]
        File(rel, text, skipped) == Item("file", rel, None, None, Str(text), <<>>, <<"4", ":", "0">>, skipped)
        Line(what, id, title, body) == Item(what, <<>>, id, title, body, <<>>, <<"h">>, FALSE)
        Row(id, title, body, plain) == Item("row", <<>>, id, title, body, plain, <<"2", "0">>, FALSE)
        hello == <<"h", "e", "l", "l", "o">>
        Files == {<<File(<<"a", "\\", "b">>, <<"x", " ", " ", "y", " ", "z">>, FALSE),
                    File(<<"a", "/", "b">>, <<"x", "y", "z", "w">>, FALSE),
                    File(<<"c", "_", "d", ".", "m", "d">>, <<" ">>, FALSE),
                    File(<<"e", ".", "o">>, hello, TRUE)>>}
        Lines == {<<Line("object", Str(<<"2">>), None, Str(hello \o <<" ", " ", "w">>)),
                    Line("object", None, Str(<<" ">>), Num(12)),
                    Line("blank", None, None, None),
                    Line("invalid", None, None, None),
                    Line("object", Num(2), Str(hello), Some([type |-> "null", str |-> <<>>, num |-> 0]))>>,
                  <<Line("object", Str(<<"a">>), Str(hello), Str(hello)),
                    Line("object", None, None, Str(<<"x", " ", "y">>))>>}
        Rows == {<<Row(Str(<<"1">>), Str(hello \o <<" ", "w">>), None, <<>>),
                   Row(None, Str(hello), Str(hello), hello),
                   Row(Str(<<"1">>), None, Str(<<"(", "a", " ", " ", "b", "c", ")">>), <<"a", " ", " ", "b", "c">>),
                   Row(Str(<<"3">>), Str(<<" ">>), None, <<>>)>>,
                 <<Row(Str(<<"7">>), None, Str(hello), hello)>>}
        Sources(kind, contents) ==
            {[kind |-> kind, name |-> name, path |-> <<"/", "p">>, items |-> items] :
                name \in {<<"s">>, <<"t">>}, items \in contents}
        Choices == Sources("filesystem", Files) \cup Sources("jsonl", Lines)
                       \cup Sources("stackexchange_xml", Rows)
    IN  {[max_indexed_chars |-> m, sources |-> sources] :
            m \in 1..MaxIndexedChars,
            sources \in {<<a>> : a \in Choices} \cup {<<a, b>> : a \in Choices, b \in Choices}}

InitIngest ==
    /\ index = <<>>
    /\ manifestFile = AbsentFile
    /\ lock = 0
    /\ run = [p \in Procs |-> IdleRun]
    /\ last = NoRun
    /\ app = LocalOnlyApp
    /\ cur = IdleRequest
    /\ prev = IdleRequest
    /\ \E config \in IngestConfigs :
          ingest = [pc |-> "running", max_indexed_chars |-> config.max_indexed_chars,
                    sources |-> config.sources, docs |-> <<>>]
    /\ engine = ClosedEngine

NextIngest ==
    \/ IngestFilesystem
    \/ IngestJsonl
    \/ IngestStackExchange

SpecIngest == InitIngest /\ [][NextIngest]_vars

\* C16: every document an ingester emits, for every max_indexed_chars >= 1,
\* has a body of at most max_indexed_chars characters and a preview of at
\* most 283.
C16_TruncationBound ==
    \A i \in 1..Len(ingest.docs) :
        /\ Len(ingest.docs[i].body) <= ingest.max_indexed_chars
        /\ Len(ingest.docs[i].preview) <= 283

\* C17: no two documents emitted in one ingest pass have the same doc_id.
C17_DocIdUniqueness ==
    \A i, j \in 1..Len(ingest.docs) :
        ingest.docs[i].doc_id = ingest.docs[j].doc_id => i = j

\* The run r is a run without --rebuild whose pass emitted every id of the
\* old manifest, each document with the fingerprint recorded there.
NoOpRun(r) ==
    /\ ~r.rebuild
    /\ \A i \in 1..Len(r.pass) :
          /\ r.pass[i].doc_id \in DOMAIN r.old_manifest
          /\ r.old_manifest[r.pass[i].doc_id] = r.pass[i].fingerprint
    /\ DOMAIN r.old_manifest \subseteq IdsOf(r.pass)

\* C18: in a successful run without --rebuild in which every emitted
\* fingerprint is the one of the old manifest and every id of the old
\* manifest is emitted, no delete and no add is issued and nothing is
\* committed, no step changes the committed index, and the manifest the run
\* ends with has the content it started with.
C18_NoOpRerunZeroWrites ==
    [][(run[1].pc \in {"ingested", "committed", "truncated", "saved"} /\ NoOpRun(run[1])) =>
          /\ run[1].ops = <<>>
          /\ ~run'[1].committed
          /\ index' = index
          /\ run'[1].pc = "done" =>
                /\ manifestFile'.state = "complete"
                /\ load_manifest(manifestFile') = run[1].old_manifest]_vars

\* Such a run has ended, over two documents that are in the index.
C18_Witness ==
    /\ run[1].pc = "done"
    /\ NoOpRun(run[1])
    /\ Cardinality(IdsOf(run[1].pass)) = 2
    /\ Cardinality(SearchableIds) = 2
    /\ ~run[1].committed

\* C19: a request calls the synthesizer at most once, and only when
\* answer=true and a synthesizer is configured; the call gets the page cut
\* from the re-ranked hits, which is the page the response returns; the
\* answer of a response is the text of that call when the call returned a
\* text that is not empty, and null in every other case.
C19_AnswerAttachment ==
    /\ Len(cur.synth_calls) <= 1
    /\ cur.synth_calls # <<>> =>
          /\ cur.params.answer = Some(TRUE)
          /\ app.ollama # None
          /\ cur.synth_calls[1] = skip_take(cur.hits, cur.offset, cur.limit)
    /\ Responded(cur) =>
          /\ cur.synth_calls # <<>> => cur.synth_calls[1] = cur.response.hits
          /\ cur.response.answer # None <=>
                (cur.synth_calls # <<>> /\ cur.generated # None /\ cur.generated[1] # <<>>)
          /\ cur.response.answer # None => cur.response.answer = cur.generated

\* An answer came with the second page of a ranked list of several hits.
C19_Witness ==
    /\ Responded(cur)
    /\ cur.response.answer # None
    /\ cur.offset = 1
    /\ Len(cur.hits) >= 3
    /\ Len(cur.response.hits) = 1
    /\ cur.queried_kiwix

\* C20: a successful run with --rebuild, from whatever index and manifest
\* it found, has read no old manifest, has committed, reports removed = 0
\* and indexed = the number of the documents emitted, and leaves an index
\* that holds the emitted documents and no other and a manifest that maps
\* the doc_id of every emitted document, and no other id, to the
\* document's fingerprint.
C20_RebuildSemantics ==
    (run[1].pc = "done" /\ run[1].rebuild) =>
        /\ run[1].old_manifest = EmptyMap
        /\ run[1].committed
        /\ IndexStats(run[1]).removed = 0
        /\ IndexStats(run[1]).indexed = Len(run[1].pass)
        /\ {index[i] : i \in 1..Len(index)} = {run[1].pass[i] : i \in 1..Len(run[1].pass)}
        /\ manifestFile.state = "complete"
        /\ ManifestIds = IdsOf(run[1].pass)
        /\ \A i \in 1..Len(run[1].pass) :
              manifestFile.docs[run[1].pass[i].doc_id] = run[1].pass[i].fingerprint

(***************************************************************************)
(* index_sources, runs that end with an error.  Every `?` of the function  *)
(* returns the error to the caller; the writer is dropped with whatever it *)
(* holds, its lock is released, and the operations it had buffered never   *)
(* reach the index: tantivy publishes a writer's operations at commit.     *)
(***************************************************************************)
\* The locals of a run that returned an error; of what the run held, the
\* operations the dropped writer had buffered are kept on record.
Failed(r) == [IdleRun EXCEPT !.pc = "failed", !.rebuild = r.rebuild, !.ops = r.ops]

\* IngestFail that publishes the operations the writer held.
IngestFailFlushed(p, docs) ==
    /\ run[p].pc = "writer"
    /\ LET r0 == [run[p] EXCEPT !.items = docs,
                                !.pass = emitted_of(docs),
                                !.ops = IF run[p].rebuild THEN <<OpDeleteAll>> ELSE <<>>]
           r1 == ingest_sources(r0, docs)
       IN  /\ run' = [run EXCEPT ![p] = Failed(r1)]
           /\ index' = ApplyOps(index, r1.ops)
    /\ lock' = 0
    /\ UNCHANGED <<manifestFile, last>>
    /\ UNCHANGED svars

\* The pass ends with an error after the documents docs went through the
\* closure: a source file that cannot be opened, an XML parse error, or
\* add_document failing on the next document.
IngestFail(p, docs) ==
    /\ run[p].pc = "writer"
    /\ LET r0 == [run[p] EXCEPT !.items = docs,
                                !.pass = emitted_of(docs),
                                !.ops = IF run[p].rebuild THEN <<OpDeleteAll>> ELSE <<>>]
           r1 == ingest_sources(r0, docs)
       IN  run' = [run EXCEPT ![p] = Failed(r1)]
    /\ lock' = 0
    /\ UNCHANGED <<index, manifestFile, last>>
    /\ UNCHANGED svars

\* CommitFail that goes on to save_manifest as if the commit had succeeded.
CommitFailIgnored(p) ==
    /\ run[p].pc = "ingested"
    /\ should_commit(run[p])
    /\ run' = [run EXCEPT ![p].pc = "committed"]
    /\ UNCHANGED <<index, manifestFile, lock, last>>
    /\ UNCHANGED svars

\* writer.commit() returns an error: the function returns before
\* save_manifest, and the committed index stays the one of the last commit.
CommitFail(p) ==
    /\ run[p].pc = "ingested"
    /\ should_commit(run[p])
    /\ run' = [run EXCEPT ![p] = Failed(run[p])]
    /\ lock' = 0
    /\ UNCHANGED <<index, manifestFile, last>>
    /\ UNCHANGED svars

\* The passes of sources some of whose items are skipped.
ItemPasses == SeqsUpTo(RawDocument \cup {Rejected}, MaxPassLen)

\* One indexer process whose runs may end with an error.
NextFail ==
    \/ RunStep(1, ItemPasses)
    \/ \E docs \in ItemPasses : IngestFail(1, docs)
    \/ CommitFail(1)

SpecFail == Init /\ [][NextFail]_vars

\* The add operations among ops.
AddsOf(ops) == LET is_add(o) == o.op = "add_document" IN SelectSeq(ops, is_add)

\* C21: a run issues the commit if and only if it is a rebuild, or it added
\* a document, or an id of the old manifest was not emitted; the manifest
\* file changes only in a run that has passed its commit step, which is
\* entered from the end of the pass and, when a commit is due, publishes the
\* run's operations; a run whose commit fails leaves the manifest file as
\* it was; and every run that ends without error, with or without a commit,
\* leaves the complete manifest of its pass.
C21_CommitThenManifest ==
    [][/\ manifestFile' # manifestFile => run[1].pc \in {"committed", "truncated"}
       /\ run'[1].pc = "committed" =>
             /\ run[1].pc = "ingested"
             /\ run'[1].committed <=>
                   \/ run[1].rebuild
                   \/ AddsOf(run[1].ops) # <<>>
                   \/ (DOMAIN run[1].old_manifest) \ IdsOf(run[1].pass) # {}
             /\ index' = IF run'[1].committed THEN ApplyOps(index, run[1].ops) ELSE index
       /\ (run[1].pc = "ingested" /\ run'[1].pc = "failed") =>
             /\ manifestFile' = manifestFile
             /\ ~run'[1].committed
       /\ run'[1].pc = "done" => manifestFile' = CompleteFile(run[1].new_docs)]_vars

\* A run without a commit has written its manifest, after a run whose commit
\* failed had left the file of the run before.
C21_Witness ==
    /\ run[1].pc = "done"
    /\ ~run[1].committed
    /\ run[1].pass # <<>>
    /\ last.kind = "failed"
    /\ manifestFile = CompleteFile(run[1].new_docs)

(***************************************************************************)
(* The result limits: AppConfig::from_file, and the limit of a request.    *)
(***************************************************************************)
\* The checks of from_file on the two result limits; a key that is absent
\* from the TOML text has the value of its serde default, 20 or 100.
from_file(cfg) ==
    [cfg EXCEPT !.default_result_limit = IF @ = 0 THEN 20 ELSE @,
                !.max_result_limit = IF @ = 0 THEN 100 ELSE @]

\* The limits a configuration file may state.
LimitConfigs ==
    {[default_result_limit |-> d, max_result_limit |-> m] : d \in {0, 1, 3, 20}, m \in {0, 1, 2, 100}}

\* Requests that state no limit, limit 0, a small one, and the largest.
LimitRequests ==
    {SearchParams(Some(Str_ab), limit, offset, None, None) :
        limit \in {None, Some(0), Some(1), Some(2), Some(3), Some(USIZE_MAX)},
        offset \in {None, Some(1)}}

\* The service is started with a configuration read by from_file; app.config
\* keeps the limits as the file stated them.
InitLimits ==
    /\ \E raw \in LimitConfigs, k \in {None, Some([collections |-> KiwixCollections(2),
                                                   max_hits_per_collection |-> 2])} :
          /\ index = PagingCorpus
          /\ manifestFile = CompleteFile(ManifestOf(PagingCorpus))
          /\ app = [kiwix |-> k, ollama |-> None,
                    default_limit |-> from_file(raw).default_result_limit,
                    max_limit |-> from_file(raw).max_result_limit,
                    local_sources |-> {Str_docs}, overflow_checks |-> TRUE,
                    config |-> raw]
    /\ lock = 0
    /\ run = [p \in Procs |-> IdleRun]
    /\ last = NoRun
    /\ cur = IdleRequest
    /\ prev = IdleRequest
    /\ ingest = IdleIngest
    /\ engine = ClosedEngine

NextLimits ==
    \/ \E params \in LimitRequests : cur.pc = "idle" /\ Receive(params)
    \/ LocalSearch
    \/ KiwixSearch
    \/ Respond

SpecLimits == InitLimits /\ [][NextLimits]_vars

\* C22: the limits the service runs with are those of the file, with 20 in
\* place of a default of 0 and 100 in place of a maximum of 0, so that
\* 1 <= max_limit; the limit of a request is its limit parameter, or the
\* default limit, raised to 1 and lowered to max_limit; and a response
\* carries at most that many hits, so at most max_limit.
C22_LimitClamping ==
    /\ app.default_limit = IF app.config.default_result_limit = 0 THEN 20
                           ELSE app.config.default_result_limit
    /\ app.max_limit = IF app.config.max_result_limit = 0 THEN 100
                       ELSE app.config.max_result_limit
    /\ 1 <= app.max_limit
    /\ cur.pc # "idle" =>
          /\ cur.limit = LET asked == IF cur.params.limit = None THEN app.default_limit
                                      ELSE cur.params.limit[1]
                         IN  Max(1, Min(asked, app.max_limit))
          /\ 1 <= cur.limit
          /\ cur.limit <= app.max_limit
          /\ Len(cur.response.hits) <= cur.limit

\* A request without a limit, under a default of 20 that took the place of
\* 0 and a maximum of 2, was answered with 2 of more than 2 ranked hits.
C22_Witness ==
    /\ Responded(cur)
    /\ app.config.default_result_limit = 0
    /\ app.max_limit = 2
    /\ cur.params.limit = None
    /\ Len(cur.response.hits) = 2
    /\ Len(cur.hits) > 2

(***************************************************************************)
(* fetch_count at the ends of the usize range: a service whose max_limit   *)
(* is small, near USIZE_MAX / 20, or the largest a TOML integer states,    *)
(* and requests whose offset and limit are small or near USIZE_MAX.        *)
(***************************************************************************)
InitFetch ==
    /\ \E m \in {1, 3, 100, USIZE_MAX \div 20, USIZE_MAX \div 20 + 1, USIZE_MAX \div 2},
          d \in {2, 20} :
          /\ index = PagingCorpus
          /\ manifestFile = CompleteFile(ManifestOf(PagingCorpus))
          /\ app = [kiwix |-> None, ollama |-> None,
                    default_limit |-> d, max_limit |-> m,
                    local_sources |-> {Str_docs}, overflow_checks |-> TRUE]
    /\ lock = 0
    /\ run = [p \in Procs |-> IdleRun]
    /\ last = NoRun
    /\ cur = IdleRequest
    /\ prev = IdleRequest
    /\ ingest = IdleIngest
    /\ engine = ClosedEngine

NextFetch ==
    \E limit \in {None, Some(0), Some(1), Some(USIZE_MAX \div 3), Some(USIZE_MAX)},
       offset \in {None, Some(1), Some(59), Some(USIZE_MAX \div 3), Some(USIZE_MAX - 1),
                   Some(USIZE_MAX)} :
        /\ cur.pc = "idle"
        /\ Receive(SearchParams(Some(Str_ab), limit, offset, None, None))

SpecFetch == InitFetch /\ [][NextFetch]_vars

\* C23 as stated: fetch_count is the mathematical value
\* min((offset+limit)*3, max(max_limit*20, limit)), it is at least limit,
\* and it is at least offset + limit whenever offset + limit <= max_limit*20.
C23_FetchCount_AsStated ==
    cur.pc = "received" =>
        /\ cur.fetch_count = Min((cur.offset + cur.limit) * 3, Max(app.max_limit * 20, cur.limit))
        /\ cur.fetch_count >= cur.limit
        /\ cur.offset + cur.limit <= app.max_limit * 20 =>
              cur.fetch_count >= cur.offset + cur.limit

\* C23: fetch_count is a usize, the mathematical value
\* min((offset+limit)*3, max(max_limit*20, limit)) lowered to USIZE_MAX; it
\* is at least limit; and whenever offset + limit <= max_limit*20 it is at
\* least offset + limit, or USIZE_MAX when offset + limit is larger than that.
C23_FetchCount ==
    cur.pc = "received" =>
        /\ cur.fetch_count \in 0..USIZE_MAX
        /\ cur.fetch_count =
              Min(USIZE_MAX,
                  Min((cur.offset + cur.limit) * 3, Max(app.max_limit * 20, cur.limit)))
        /\ cur.fetch_count >= cur.limit
        /\ cur.offset + cur.limit <= app.max_limit * 20 =>
              cur.fetch_count >= Min(cur.offset + cur.limit, USIZE_MAX)

\* offset + limit is past USIZE_MAX and so is max_limit*20: both terms
\* saturate.
C23_Witness ==
    /\ cur.pc = "received"
    /\ cur.offset + cur.limit > USIZE_MAX
    /\ app.max_limit * 20 > USIZE_MAX
    /\ cur.limit > 1
    /\ cur.fetch_count = USIZE_MAX

(***************************************************************************)
(* A running SearchEngine next to an indexer.  SearchEngine::open builds a *)
(* reader with ReloadPolicy::OnCommitWithDelay: a watcher reloads it some  *)
(* time after a commit, and search reloads it at every call.  A reload     *)
(* makes the reader hold the last commit; a searcher is the reader's       *)
(* snapshot at the time it is taken.  The queries here match every         *)
(* document and ask for more hits than there are.                          *)
(***************************************************************************)
\* Most commits after an engine was opened.
MaxCommits == 2

\* The passes of the runs next to an engine: no document, one document in
\* either version, two documents, one doc_id emitted twice.
ReaderPasses ==
    LET doc(id, fp) == [doc_id |-> id, fingerprint |-> fp]
    IN  {<<>>, <<doc(1, "f1")>>, <<doc(1, "f2")>>, <<doc(1, "f1"), doc(2, "f1")>>,
         <<doc(2, "f1"), doc(2, "f2")>>}

\* search is called with a query that is not blank.
SearchBegin ==
    /\ engine.pc \in {"ready", "returned"}
    /\ engine' = [engine EXCEPT
                     !.pc = "called",
                     !.started_at = engine.opstamp,
                     !.earlier = IF engine.pc = "returned"
                                 THEN Max(@, Min(engine.count_of.opstamp, engine.top_of.opstamp))
                                 ELSE @]
    /\ UNCHANGED <<index, manifestFile, lock, run, last, app, cur, prev, ingest>>

\* search that takes its searcher without reloading the reader.
ReloadSkipped ==
    /\ engine.pc = "called"
    /\ engine' = [engine EXCEPT !.pc = "reloaded"]
    /\ UNCHANGED <<index, manifestFile, lock, run, last, app, cur, prev, ingest>>

\* self.reader.reload()
Reload ==
    /\ engine.pc = "called"
    /\ engine' = [engine EXCEPT !.pc = "reloaded",
                                !.reader = Snapshot(engine.opstamp, index)]
    /\ UNCHANGED <<index, manifestFile, lock, run, last, app, cur, prev, ingest>>

\* let searcher = self.reader.searcher()
Searcher ==
    /\ engine.pc = "reloaded"
    /\ engine' = [engine EXCEPT !.pc = "searching", !.searcher = engine.reader]
    /\ UNCHANGED <<index, manifestFile, lock, run, last, app, cur, prev, ingest>>

\* searcher.search(.., &Count)
Count ==
    /\ engine.pc = "searching"
    /\ engine' = [engine EXCEPT !.pc = "counted",
                                !.total_hits = Len(engine.searcher.docs),
                                !.count_of = engine.searcher]
    /\ UNCHANGED <<index, manifestFile, lock, run, last, app, cur, prev, ingest>>

\* The top documents taken from a searcher of their own.
TopDocsOfNewSearcher ==
    /\ engine.pc = "counted"
    /\ engine' = [engine EXCEPT !.pc = "returned",
                                !.top_docs = index,
                                !.top_of = Snapshot(engine.opstamp, index)]
    /\ UNCHANGED <<index, manifestFile, lock, run, last, app, cur, prev, ingest>>

\* searcher.search(.., &TopDocs::with_limit(limit).and_offset(offset)), the
\* hits are read, Ok(SearchResult) is returned.
TopDocs ==
    /\ engine.pc = "counted"
    /\ engine' = [engine EXCEPT !.pc = "returned",
                                !.top_docs = engine.searcher.docs,
                                !.top_of = engine.searcher]
    /\ UNCHANGED <<index, manifestFile, lock, run, last, app, cur, prev, ingest>>

\* The watcher of the reader reloads it after a commit.
WatcherReload ==
    /\ engine.pc # "closed"
    /\ engine.reader.opstamp < engine.opstamp
    /\ engine' = [engine EXCEPT !.reader = Snapshot(engine.opstamp, index)]
    /\ UNCHANGED <<index, manifestFile, lock, run, last, app, cur, prev, ingest>>

\* SearchEngine::open on the index_dir as the indexer left it.
InitReader ==
    /\ index = <<>>
    /\ manifestFile = AbsentFile
    /\ lock = 0
    /\ run = [p \in Procs |-> IdleRun]
    /\ last = NoRun
    /\ app = LocalOnlyApp
    /\ cur = IdleRequest
    /\ prev = IdleRequest
    /\ ingest = IdleIngest
    /\ engine = [ClosedEngine EXCEPT !.pc = "ready", !.log = <<index>>,
                                     !.reader = Snapshot(0, index)]

\* An indexer process, with at most MaxCommits commits, and the searches of
\* one engine, one after the other.
NextReader ==
    \/ \E rebuild \in BOOLEAN : engine.opstamp < MaxCommits /\ Start(1, rebuild)
    \/ OpenWriter(1)
    \/ \E docs \in ReaderPasses : Ingest(1, docs)
    \/ Commit(1)
    \/ SaveTruncate(1)
    \/ SaveWrite(1)
    \/ Finish(1)
    \/ SearchBegin
    \/ Reload
    \/ Searcher
    \/ Count
    \/ TopDocs
    \/ WatcherReload

SpecReader == InitReader /\ [][NextReader]_vars

\* The search in flight has taken its searcher.
HasSearcher == engine.pc \in {"searching", "counted", "returned"}

\* C24: the searcher of a search holds a commit that is not older than the
\* last commit completed when search was called, and not older than the
\* commit any search that returned earlier had observed; what it holds is
\* what that commit left in the index; and the count and the top documents
\* of one search are taken from one and the same snapshot.
C24_ReaderFreshness ==
    /\ HasSearcher =>
          /\ engine.searcher.opstamp >= engine.started_at
          /\ engine.searcher.opstamp >= engine.earlier
          /\ engine.searcher.opstamp <= engine.opstamp
          /\ engine.searcher.docs = engine.log[engine.searcher.opstamp + 1]
    /\ engine.pc \in {"counted", "returned"} => engine.count_of = engine.searcher
    /\ engine.pc = "returned" =>
          /\ engine.top_of = engine.count_of
          /\ engine.total_hits = Len(engine.top_docs)

\* A search called after the first commit has returned what that commit
\* left, next to a run that committed again while the search was in flight.
C24_Witness ==
    /\ engine.pc = "returned"
    /\ engine.started_at = 1
    /\ engine.top_of.opstamp = 1
    /\ engine.opstamp = 2
    /\ engine.total_hits = 1
    /\ engine.log[3] # engine.log[2]

(***************************************************************************)
(* rerank_hits over hits whose scores tie: the first rows of two kiwix     *)
(* collections have the same score, and titles that differ only in         *)
(* characters outside a-z, 0-9 get the same boost.                         *)
(***************************************************************************)
\* Deployments whose titles are "Caf" followed by punctuation or by a
\* letter that is not ASCII; two local documents and two collections.
RerankSetups ==
    LET Caf == <<"C", "a", "f">>
        titles == {<<Caf \o <<Str_e_acute>>>>, <<Caf \o <<"!", "!">>>>,
                   <<Caf \o <<"!", "!", "!">>, Caf>>, <<Caf \o <<"-">>, Caf \o <<Str_e_acute>>>>}
        rows(ts) == [i \in 1..Len(ts) |-> KiwixRow(<<"/", Digits[i]>>, ts[i])]
        collection(id, ts) == [id |-> <<id>>, title |-> <<id>>, fails |-> FALSE,
                               header_total |-> None, rows |-> rows(ts)]
    IN  {[index |-> <<LocalDoc("1", Str_docs, Caf \o <<"!">>, 3), LocalDoc("2", Str_docs, Caf, 3)>>,
          kiwix |-> Some([collections |-> <<collection("w", tw), collection("z", tz)>>,
                          max_hits_per_collection |-> 2])] :
            tw \in titles, tz \in titles}

InitRerank ==
    /\ \E d \in RerankSetups :
          /\ index = d.index
          /\ manifestFile = CompleteFile(ManifestOf(d.index))
          /\ app = [kiwix |-> d.kiwix, ollama |-> None, default_limit |-> 20,
                    max_limit |-> 100, local_sources |-> {Str_docs}, overflow_checks |-> TRUE]
    /\ lock = 0
    /\ run = [p \in Procs |-> IdleRun]
    /\ last = NoRun
    /\ cur = IdleRequest
    /\ prev = IdleRequest
    /\ ingest = IdleIngest
    /\ engine = ClosedEngine

\* Queries "caf" and "Caf!", and two whose normalized form is empty.
NextRerank ==
    \/ \E q \in {<<"c", "a", "f">>, <<"C", "a", "f", "!">>, <<"!">>, <<Str_e_acute>>},
          source \in {None, Some(Str_kiwix)} :
          /\ cur.pc = "idle"
          /\ Receive(SearchParams(Some(q), None, None, source, None))
    \/ LocalSearch
    \/ KiwixSearch
    \/ Respond

SpecRerank == InitRerank /\ [][NextRerank]_vars

\* The hits as rerank_hits scores them: max(score, 0) plus the boost, which
\* is the score rerank_score gives the hit when its score is 0.
Rescored(hits, query) ==
    LET normalized_query == normalize_for_matching(query)
        query_tokens == tokenize(normalized_query)
        boost(hit) == rerank_score([hit EXCEPT !.score = 0], normalized_query, query_tokens)
    IN  [i \in 1..Len(hits) |-> [hits[i] EXCEPT !.score = Max(@, 0) + boost(hits[i])]]

\* b holds the elements of a, each as often as a does.
IsPermutation(a, b) ==
    /\ Len(a) = Len(b)
    /\ \A i \in 1..Len(a) :
          Cardinality({j \in 1..Len(a) : a[j] = a[i]}) = Cardinality({j \in 1..Len(b) : b[j] = a[i]})

\* The step of the handler that runs rerank_hits.
Reranks == cur.pc = "kiwix_done" /\ cur'.pc = "responded"

\* C25 as stated, a shorter title being one of fewer characters.
C25_RerankOrder_AsStated ==
    [][Reranks =>
          IF normalize_for_matching(cur.query) = <<>> THEN cur'.hits = cur.hits
          ELSE /\ IsPermutation(Rescored(cur.hits, cur.query), cur'.hits)
               /\ \A i \in 1..(Len(cur'.hits) - 1) :
                     LET a == cur'.hits[i]
                         b == cur'.hits[i + 1]
                     IN  \/ a.score > b.score
                         \/ a.score = b.score /\ Len(a.title) < Len(b.title)
                         \/ /\ a.score = b.score
                            /\ Len(a.title) = Len(b.title)
                            /\ (a.title = b.title \/ str_less(a.title, b.title))]_vars

\* C25: after rerank_hits with a query whose normalized form is not empty
\* the list is a permutation of the input, each score replaced by
\* max(score, 0) + boost, in which of two neighbours the earlier has the
\* higher score, or the same score and a title of fewer bytes of UTF-8, or
\* the same score and as many bytes and a title that is byte-wise smaller or
\* equal; with a query whose normalized form is empty the list and its
\* scores are as they were.
C25_RerankOrder ==
    [][Reranks =>
          IF normalize_for_matching(cur.query) = <<>> THEN cur'.hits = cur.hits
          ELSE /\ IsPermutation(Rescored(cur.hits, cur.query), cur'.hits)
               /\ \A i \in 1..(Len(cur'.hits) - 1) :
                     LET a == cur'.hits[i]
                         b == cur'.hits[i + 1]
                     IN  \/ a.score > b.score
                         \/ a.score = b.score /\ len(a.title) < len(b.title)
                         \/ /\ a.score = b.score
                            /\ len(a.title) = len(b.title)
                            /\ (a.title = b.title \/ str_less(a.title, b.title))]_vars

\* Re-ranked hits with ties of both kinds: two neighbours of one score whose
\* titles have as many bytes, the earlier with more characters, and two
\* neighbours of one score of which the earlier title has fewer bytes.
C25_Witness ==
    /\ Responded(cur)
    /\ Len(cur.hits) >= 3
    /\ \E i \in 1..(Len(cur.hits) - 1) :
          /\ cur.hits[i].score = cur.hits[i + 1].score
          /\ len(cur.hits[i].title) = len(cur.hits[i + 1].title)
          /\ Len(cur.hits[i].title) > Len(cur.hits[i + 1].title)
    /\ \E i \in 1..(Len(cur.hits) - 1) :
          /\ cur.hits[i].score = cur.hits[i + 1].score
          /\ len(cur.hits[i].title) < len(cur.hits[i + 1].title)

\* The documents of the pass of r that on_doc finds unchanged.
UnchangedOf(r) ==
    {i \in 1..Len(r.pass) :
        /\ ~r.rebuild
        /\ r.pass[i].doc_id \in DOMAIN r.old_manifest
        /\ r.old_manifest[r.pass[i].doc_id] = r.pass[i].fingerprint}

\* C26: the statistics of a run that ended without error: scanned is
\* indexed plus skipped; skipped is the number of items the ingesters
\* rejected plus the number of emitted documents found unchanged; indexed
\* is the number of add operations issued; removed is the number of ids of
\* the old manifest that the pass did not emit, and 0 in a rebuild.
C26_StatsConservation ==
    run[1].pc = "done" =>
        LET stats == IndexStats(run[1])
            rejected == {i \in 1..Len(run[1].items) : run[1].items[i] = Rejected}
        IN  /\ stats.scanned = stats.indexed + stats.skipped
            /\ stats.scanned = Len(run[1].items)
            /\ stats.skipped = Cardinality(rejected) + Cardinality(UnchangedOf(run[1]))
            /\ stats.indexed = Len(AddsOf(run[1].ops))
            /\ stats.removed = IF run[1].rebuild THEN 0
                               ELSE Cardinality((DOMAIN run[1].old_manifest) \ IdsOf(run[1].pass))

\* A run without --rebuild has ended whose pass had a rejected item, an
\* unchanged document and a changed one, and did not emit an old id.
C26_Witness ==
    /\ run[1].pc = "done"
    /\ ~run[1].rebuild
    /\ IndexStats(run[1]).removed = 1
    /\ IndexStats(run[1]).indexed = 1
    /\ IndexStats(run[1]).skipped = 1
    /\ IndexStats(run[1]).scanned = 2
    /\ \E i \in 1..Len(run[1].items) : run[1].items[i] = Rejected

(***************************************************************************)
(* A run that returns an error.                                            *)
(***************************************************************************)
\* C27: a run that ends with an error before its commit leaves the
\* committed index and the manifest file as it found them: a run fails
\* only from a point before its commit, and no step of a run up to and
\* including the failing one changes the searchable index or the manifest
\* file, whatever the writer held then (the delete-all of a rebuild, the
\* deletes and adds of the documents already taken).
C27_FailedRunLeavesState ==
    [][/\ run'[1].pc = "failed" =>
             /\ run[1].pc \in {"idle", "done", "failed", "loaded", "writer", "ingested"}
             /\ ~run[1].committed
             /\ ~run'[1].committed
       /\ run'[1].pc \in {"loaded", "writer", "ingested", "failed"} =>
             /\ index' = index
             /\ manifestFile' = manifestFile]_vars

\* A rebuild has failed after its delete-all and an add were handed to the
\* writer, over an index and a manifest that hold documents.
C27_Witness ==
    /\ run[1].pc = "failed"
    /\ run[1].rebuild
    /\ Len(run[1].ops) >= 2
    /\ Head(run[1].ops) = OpDeleteAll
    /\ AddsOf(run[1].ops) # <<>>
    /\ index # <<>>
    /\ manifestFile.state = "complete"
    /\ DOMAIN manifestFile.docs = IdsOf(index)

(***************************************************************************)
(* Overlapping runs: the manifest is read before the writer is opened.     *)
(***************************************************************************)
\* C28: with runs that overlap on one index_dir, the old manifest of the
\* run that holds the writer and has not yet committed is what the
\* manifest file holds (no other run rewrote the file between this run's
\* read and its opening of the writer), and once every run has ended the
\* doc_ids of the manifest are the doc_ids of the committed index.
C28_ManifestReadUnderLock ==
    /\ \A p \in Procs :
          (run[p].pc \in {"writer", "ingested"} /\ ~run[p].rebuild) =>
              run[p].old_manifest = load_manifest(manifestFile)
    /\ (\A p \in Procs : Ended(p)) =>
          DOMAIN load_manifest(manifestFile) = IdsOf(index)

(***************************************************************************)
(* What a search sees of a run in flight.                                  *)
(***************************************************************************)
\* The snapshots a search can be looking at: the one the reader holds, and
\* the one of the searcher, of the count and of the top documents once taken.
SnapshotsInUse ==
    {engine.reader}
        \cup (IF HasSearcher THEN {engine.searcher} ELSE {})
        \cup (IF engine.pc \in {"counted", "returned"} THEN {engine.count_of} ELSE {})
        \cup (IF engine.pc = "returned" THEN {engine.top_of} ELSE {})

\* C29: a search next to an indexer run sees what a commit left, whole:
\* every snapshot in use is the document set of one commit; while a run
\* holds operations it has not committed (the delete-all of a rebuild, the
\* delete and the add of a changed document) the searchable index is still
\* what the commit before the run left; the documents a search returns are
\* those of a commit not older than the one it was called at; and no
\* snapshot holds two documents with one doc_id.
C29_AtomicVisibility ==
    /\ \A s \in SnapshotsInUse :
          /\ s.opstamp \in 0..engine.opstamp
          /\ s.docs = engine.log[s.opstamp + 1]
          /\ Cardinality(IdsOf(s.docs)) = Len(s.docs)
    /\ run[1].pc \in {"loaded", "writer", "ingested"} =>
          index = engine.log[Len(engine.log)]
    /\ Len(engine.log) = engine.opstamp + 1
    /\ engine.pc = "returned" =>
          \E k \in engine.started_at..engine.opstamp :
              engine.top_docs = engine.log[k + 1]

\* A search is in flight on the documents of the first commit while a
\* rebuild holds its delete-all and the delete and add of a new version of
\* a document that the search still sees in its old version.
C29_Witness ==
    /\ engine.pc \in {"searching", "counted"}
    /\ engine.searcher.docs # <<>>
    /\ engine.searcher.opstamp = engine.opstamp
    /\ run[1].pc = "ingested"
    /\ run[1].rebuild
    /\ Head(run[1].ops) = OpDeleteAll
    /\ \E i \in 1..Len(run[1].pass) : \E j \in 1..Len(engine.searcher.docs) :
          /\ run[1].pass[i].doc_id = engine.searcher.docs[j].doc_id
          /\ run[1].pass[i].fingerprint # engine.searcher.docs[j].fingerprint

(***************************************************************************)
(* The fingerprints of the manifest against the versions in the index.     *)
(***************************************************************************)
\* C30: after a run that ended without error, every doc_id of the manifest
\* has exactly one document in the committed index, and the fingerprint the
\* manifest records for it is the fingerprint of that document; when the
\* pass emitted the doc_id more than once, it is the fingerprint of the
\* last record emitted.
C30_ManifestFingerprintMatchesIndex ==
    run[1].pc = "done" =>
        LET manifest == load_manifest(manifestFile)
            pass == run[1].pass
        IN  /\ \A id \in DOMAIN manifest :
                  /\ Cardinality({i \in 1..Len(index) : index[i].doc_id = id}) = 1
                  /\ \A i \in 1..Len(index) :
                        index[i].doc_id = id => index[i].fingerprint = manifest[id]
            /\ \A i \in 1..Len(pass) :
                  (\A j \in (i + 1)..Len(pass) : pass[j].doc_id # pass[i].doc_id) =>
                      /\ pass[i].doc_id \in DOMAIN manifest
                      /\ manifest[pass[i].doc_id] = pass[i].fingerprint
                      /\ \E k \in 1..Len(index) : index[k] = pass[i]

====
